---- MODULE Spec2Model ----
(***************************************************************************)
(* A model of guyzip's DEFLATE encoder: the LZ77 tokenizer                 *)
(* (src/deflate/lempel_ziv.rs), the length-limited Huffman code generator  *)
(* (src/huffman.rs), the block splitter (src/deflate/block_splitter.rs)    *)
(* and the bit-stream writer (src/deflate.rs).                             *)
(*                                                                         *)
(* Rust arrays and vectors are indexed from 0; a TLA+ sequence s holds     *)
(* element i of the Rust value at s[i + 1].  A fallible Rust function is   *)
(* an operator returning a record whose field panic tells whether the call *)
(* ended in a panic.  overflow_checks is the build's choice between        *)
(* panicking and wrapping on integer overflow (debug and release           *)
(* profiles).                                                              *)
(***************************************************************************)
EXTENDS Integers, Sequences, FiniteSets, TLC

VARIABLES
    overflow_checks,     \* build profile: TRUE = overflow panics, FALSE = it wraps
    data,                \* the input file
    pc,                  \* position of deflate()
    reps_tracker,        \* RepsTracker: pos, reps, to_forget, window_rolling_hash
    possible_encodings,  \* Encoder.possible_encodings, the ring of list heads
    tokens,              \* result of lempel_ziv
    split_i,             \* block_split: start of the next slice
    curr_block,          \* block_split: the block in progress
    blocks,              \* result of block_split
    writer,              \* DeflateWriter: its fields and the bytes given to the sink
    block_i,             \* deflate: index of the block being written
    emitted,             \* history: the write_bits calls made, per block
    gen                  \* the harness of a function explored on its own: call and result

vars ==
    << overflow_checks, data, pc, reps_tracker, possible_encodings,
       tokens, split_i, curr_block, blocks, writer, block_i,
       emitted, gen >>

-----------------------------------------------------------------------------
(* Bounds of the model.                                                    *)

\* inputs of two copies of 130 .. 130 + MaxPad bytes are explored
MaxPad == 1

\* inputs of 0 .. MaxShort bytes are explored
MaxShort == 8

\* gen_lengths is explored on every vector of GenN weights drawn from GenWeights and
\* every bound 0 .. GenMaxL
GenN == 4
GenMaxL == 3

\* block_split is explored on token lists of up to MaxSlices * BLOCK_SIZE + 1 tokens
MaxSlices == 3

\* the code-of-length and code-of-distance tables are explored on every argument up to
\* MaxOver past the largest valid one
MaxOver == 3

\* the tree description is explored on runs of equal code lengths of up to
\* MaxLongRun entries
MaxLongRun == 258

\* the match finder is explored, position by position, on inputs of MAX_REP_LEN to
\* MAX_REP_LEN + MaxTail bytes
MaxTail == 2

\* the sliding window is explored on inputs of MAX_REP_DIST + WindowTail bytes, observed
\* after each of the first ObservedHead calls of advance and after each call from two
\* before the window is full
WindowTail == 8
ObservedHead == 40

\* Encoder::run is explored, iteration by iteration, on inputs of up to
\* 2 * MAX_REP_LEN + MaxWrap bytes
MaxWrap == 2

-----------------------------------------------------------------------------
(* Program constants.                                                      *)

MAX_REP_LEN == 258
MAX_REP_DIST == 32768
HASH_WINDOW_SIZE == 2 * (2 ^ 16)
HASH_AHEAD == MAX_REP_LEN
BLOCK_SIZE == 1024

BUZHASH_TABLE ==
<<
    19792110, 409616420, 419941217, 300710691, 987000004, 1897278229, 237280603, 1262331207,
    1207746746, 592853586, 2146930935, 776980756, 199802039, 1188623692, 1954095748, 461386526,
    1102180133, 923656862, 1904402709, 158014501, 543425999, 670631558, 529332886, 1151867271,
    191379466, 180992125, 337277061, 335925901, 1710340929, 771041734, 2045067135, 2061546329,
    543666860, 49295281, 1845806485, 2076246436, 1081720606, 13598094, 1387740168, 1588035739,
    747138424, 705695380, 461918077, 888967757, 901137830, 858826593, 1887245771, 1846568680,
    1800262303, 1482733486, 89057752, 1162912368, 114860380, 399034647, 1560136908, 441847694,
    1862508243, 1147361011, 1791917883, 335892166, 2047609500, 901214439, 435783699, 1288611636,
    109697659, 1138607879, 971673564, 489757401, 609955857, 1931229052, 1068647856, 1006501959,
    1870365263, 2056935098, 113718139, 1965294278, 1779338454, 708200120, 573758411, 1488637161,
    824911808, 881765524, 2133460883, 381802287, 1473906563, 469200932, 1311503822, 1812436806,
    535628346, 517688488, 1873037727, 117528569, 1538654739, 2121616498, 662571082, 1684505812,
    1272019089, 827184313, 1733613151, 838027553, 1528611277, 1988283526, 1721878500, 2042598845,
    1825473747, 1807592050, 1126294332, 280543057, 935849881, 1499763319, 711553602, 1268846833,
    2070152632, 607660174, 1647540891, 1060950326, 1755727101, 1372052941, 1826560814, 899853865,
    195034659, 755172549, 1193511878, 1056602362, 1394127549, 1912712122, 440472536, 753757939,
    1838053224, 1940650680, 225525976, 785709395, 2046053218, 35252236, 119713053, 1001429316,
    2101663658, 2044428772, 988252358, 1256468721, 1166483151, 1405621503, 892184757, 42407230,
    1514350429, 1086401078, 1898249692, 1552237859, 1743670892, 61521701, 761967494, 1382828678,
    1136829944, 1721066319, 1003227535, 740403649, 1905895978, 151112351, 147558768, 352162033,
    1484181453, 1816611042, 1445898386, 1525063490, 268851394, 490872217, 1222335819, 145201836,
    131976073, 408185911, 1447683979, 1785140351, 802414616, 1894625854, 1730926385, 458042115,
    2067190482, 963429735, 1485120586, 715468024, 1203464225, 1294834662, 772679556, 154153744,
    1507061623, 355386388, 337857992, 1401304686, 224777237, 330477726, 535244892, 344615992,
    298077337, 2038648954, 489457424, 1853595760, 240826809, 1124094103, 1781228722, 253617083,
    1877275710, 1229762494, 1281148777, 538938223, 394202196, 1734945498, 268632721, 72247040,
    594898876, 1254720011, 436419732, 70916883, 506280409, 1640952985, 1494893550, 1892238562,
    657216065, 84383990, 1736437318, 66306218, 1943283053, 1454185028, 1173659281, 1867879775,
    1017594491, 1982828112, 863617342, 131937405, 1988545275, 1876308014, 1353881969, 1639085918,
    1885317808, 916955159, 1289814483, 1799096189, 1589495884, 1638372514, 1264579928, 1014104261,
    218025526, 1367935241, 776847653, 1571674361, 1755740088, 1726201841, 2021146789, 1643392148,
    2092088295, 1461927922, 1436138806, 1210164491, 2078687997, 1128638287, 1741320275, 890568890 >>
-----------------------------------------------------------------------------
(* Loops.  For(Step, lo, hi, s) is `for i in lo..hi { s = Step(i, s) }`,   *)
(* and WhileLoop(Cont, Body, fuel, s) is `while Cont(s) { s = Body(s) }`   *)
(* for a loop that runs at most fuel times.  Both split the iteration      *)
(* range in two so that evaluation nests only logarithmically deep.        *)

RECURSIVE For(_, _, _, _)
For(Step(_, _), lo, hi, s) ==
    IF lo >= hi THEN s
    ELSE IF hi = lo + 1 THEN Step(lo, s)
    ELSE LET mid == (lo + hi) \div 2
             s1 == For(Step, lo, mid, s)
         IN  IF s1 = s1 THEN For(Step, mid, hi, s1) ELSE s1

\* at most fuel >= 1 iterations from a state s in which Cont holds
RECURSIVE Iterate(_, _, _, _)
Iterate(Cont(_), Body(_), fuel, s) ==
    IF fuel = 1 THEN Body(s)
    ELSE LET half == fuel \div 2
             s1 == Iterate(Cont, Body, half, s)
         IN  IF Cont(s1) THEN Iterate(Cont, Body, fuel - half, s1) ELSE s1

WhileLoop(Cont(_), Body(_), fuel, s) ==
    IF fuel <= 0 \/ ~Cont(s) THEN s ELSE Iterate(Cont, Body, fuel, s)

Min(S) == CHOOSE x \in S : \A y \in S : x <= y

\* Bind(v, F) is `let a = v; F(a)`: v is computed once, however often F uses it
Bind(v, F(_)) == F(v)

-----------------------------------------------------------------------------
(* 32-bit words of the rolling hash.  A u32 is the set of the positions of *)
(* its one bits, so that xor and rotation are exact.                       *)

BitSet(n) == {i \in 0..30 : (n \div (2 ^ i)) % 2 = 1}
Xor(a, b) == (a \ b) \cup (b \ a)
rotate_left(h, k) == {(i + k) % 32 : i \in h}

-----------------------------------------------------------------------------
(* Tokens (deflate.rs, enum Token).                                        *)

Literal(v) == [tag |-> "Literal", value |-> v, len |-> 0, dist |-> 0]
\* Repeat, but with the length and the distance exchanged
Repeat_swapped(l, d) == [tag |-> "Repeat", value |-> 0, len |-> d, dist |-> l]

Repeat(l, d) == [tag |-> "Repeat", value |-> 0, len |-> l, dist |-> d]

LEN_TO_CODE ==
    << <<3, 4, 0, 257>>, <<4, 5, 0, 258>>, <<5, 6, 0, 259>>, <<6, 7, 0, 260>>,
       <<7, 8, 0, 261>>, <<8, 9, 0, 262>>, <<9, 10, 0, 263>>, <<10, 11, 0, 264>>,
       <<11, 13, 1, 265>>, <<13, 15, 1, 266>>, <<15, 17, 1, 267>>, <<17, 19, 1, 268>>,
       <<19, 23, 2, 269>>, <<23, 27, 2, 270>>, <<27, 31, 2, 271>>, <<31, 35, 2, 272>>,
       <<35, 43, 3, 273>>, <<43, 51, 3, 274>>, <<51, 59, 3, 275>>, <<59, 67, 3, 276>>,
       <<67, 83, 4, 277>>, <<83, 99, 4, 278>>, <<99, 115, 4, 279>>, <<115, 131, 4, 280>>,
       <<131, 163, 5, 281>>, <<163, 195, 5, 282>>, <<195, 227, 5, 283>>,
       <<227, 258, 5, 284>>, <<258, 259, 0, 285>> >>

DIST_TO_CODE ==
    << <<1, 2, 0, 0>>, <<2, 3, 0, 1>>, <<3, 4, 0, 2>>, <<4, 5, 0, 3>>,
       <<5, 7, 1, 4>>, <<7, 9, 1, 5>>, <<9, 13, 2, 6>>, <<13, 17, 2, 7>>,
       <<17, 25, 3, 8>>, <<25, 33, 3, 9>>, <<33, 49, 4, 10>>, <<49, 65, 4, 11>>,
       <<65, 97, 5, 12>>, <<97, 129, 5, 13>>, <<129, 193, 6, 14>>, <<193, 257, 6, 15>>,
       <<257, 385, 7, 16>>, <<385, 513, 7, 17>>, <<513, 769, 8, 18>>,
       <<769, 1025, 8, 19>>, <<1025, 1537, 9, 20>>, <<1537, 2049, 9, 21>>,
       <<2049, 3073, 10, 22>>, <<3073, 4097, 10, 23>>, <<4097, 6145, 11, 24>>,
       <<6145, 8193, 11, 25>>, <<8193, 12289, 12, 26>>, <<12289, 16385, 12, 27>>,
       <<16385, 24577, 13, 28>>, <<24577, 32769, 13, 29>> >>

\* `for (start, end, extra_bits, code) in table { if v < end { return (v - start, ..) } } panic!`
\* v - start is a u32 subtraction: below start it panics under overflow checks
\* and wraps otherwise; the wrapped value 2^32 - k is written -k.
CodeOf(table, v, oc) ==
    IF \A k \in 1..Len(table) : v >= table[k][2]
    THEN [panic |-> TRUE, offset |-> 0, extra_bits |-> 0, code |-> 0]
    ELSE Bind(table[Min({k \in 1..Len(table) : v < table[k][2]})], LAMBDA e :
             [panic |-> (v < e[1]) /\ oc,
              offset |-> v - e[1], extra_bits |-> e[3], code |-> e[4]])

deflate_code_of_len(len, oc) == CodeOf(LEN_TO_CODE, len, oc)
deflate_code_of_dist(dist, oc) == CodeOf(DIST_TO_CODE, dist, oc)

-----------------------------------------------------------------------------
(* RepsTracker (lempel_ziv.rs).                                            *)
(*                                                                         *)
(* reps maps a 3-byte key to the positions where it starts, newest first.  *)
(* to_forget holds slices of data, each 3 bytes long: the model keeps the  *)
(* position where the slice starts.  window_rolling_hash is an array of    *)
(* HASH_WINDOW_SIZE words, all zero at first: the model keeps the slots up *)
(* to the highest one written, the others still hold zero.                 *)

\* A word is kept in the array as the i32 of the same bits (the u32 less 2^32 when
\* bit 31 is set) and computed with as the set of the positions of its one bits.
WordOf(h) ==
    Bind(For(LAMBDA i, low : IF i \in h THEN low + (2 ^ i) ELSE low, 0, 31, 0), LAMBDA low :
        IF 31 \in h THEN (low - 2147483647) - 1 ELSE low)

BitsOfWord(n) == IF n >= 0 THEN BitSet(n) ELSE (0..31) \ BitSet(-(n + 1))

ReadHash(w, slot) == IF slot < Len(w) THEN BitsOfWord(w[slot + 1]) ELSE {}

WriteHash(w, slot, h) ==
    IF slot < Len(w) THEN [w EXCEPT ![slot + 1] = WordOf(h)]
    ELSE IF slot = Len(w) THEN Append(w, WordOf(h))
    ELSE w \o [k \in 1..(slot - Len(w)) |-> 0] \o <<WordOf(h)>>

Key(d, q) == <<d[q + 1], d[q + 2], d[q + 3]>>

BUZHASH_BITS == [b \in 0..255 |-> BitSet(BUZHASH_TABLE[b + 1])]

extend_hash(hash, b) == Xor(rotate_left(hash, 1), BUZHASH_BITS[b])

\* s.data[i] is read for every i < HASH_AHEAD: out of range when the input is shorter
RepsTracker_new(d) ==
    IF Len(d) < HASH_AHEAD
    THEN [panic |-> TRUE]
    ELSE [panic |-> FALSE,
          value |-> [pos |-> 0,
                     reps |-> <<>>,
                     to_forget |-> <<>>,
                     window_rolling_hash |->
                         For(LAMBDA i, w : WriteHash(w, i + 1, extend_hash(ReadHash(w, i), d[i + 1])),
                             0, HASH_AHEAD, <<>>)]]

\* advance recording the position after pos, under the key found at pos
advance_one_ahead(rt, d) ==
    Bind(IF rt.pos + 3 <= Len(d)
         THEN [rt EXCEPT !.reps = IF Key(d, rt.pos) \in DOMAIN @
                                  THEN [@ EXCEPT ![Key(d, rt.pos)] = <<rt.pos + 1>> \o @]
                                  ELSE @ @@ (Key(d, rt.pos) :> <<rt.pos + 1>>),
                         !.to_forget = <<rt.pos + 1>> \o @]
         ELSE rt, LAMBDA r1 :
    Bind(IF rt.pos + HASH_AHEAD < Len(d)
         THEN [r1 EXCEPT !.window_rolling_hash =
                  WriteHash(@, (rt.pos + HASH_AHEAD + 1) % HASH_WINDOW_SIZE,
                            extend_hash(ReadHash(@, (rt.pos + HASH_AHEAD) % HASH_WINDOW_SIZE),
                                        d[rt.pos + HASH_AHEAD + 1]))]
         ELSE r1, LAMBDA r2 :
    IF Len(r2.to_forget) > MAX_REP_DIST
    THEN [r2 EXCEPT !.pos = @ + 1,
                    !.to_forget = SubSeq(@, 1, Len(@) - 1),
                    !.reps[Key(d, r2.to_forget[Len(r2.to_forget)] - 1)] = SubSeq(@, 1, Len(@) - 1)]
    ELSE [r2 EXCEPT !.pos = @ + 1]))

advance(rt, d) ==
    Bind(IF rt.pos + 3 <= Len(d)
         THEN [rt EXCEPT !.reps = IF Key(d, rt.pos) \in DOMAIN @
                                  THEN [@ EXCEPT ![Key(d, rt.pos)] = <<rt.pos>> \o @]
                                  ELSE @ @@ (Key(d, rt.pos) :> <<rt.pos>>),
                         !.to_forget = <<rt.pos>> \o @]
         ELSE rt, LAMBDA r1 :
    Bind(IF rt.pos + HASH_AHEAD < Len(d)
         THEN [r1 EXCEPT !.window_rolling_hash =
                  WriteHash(@, (rt.pos + HASH_AHEAD + 1) % HASH_WINDOW_SIZE,
                            extend_hash(ReadHash(@, (rt.pos + HASH_AHEAD) % HASH_WINDOW_SIZE),
                                        d[rt.pos + HASH_AHEAD + 1]))]
         ELSE r1, LAMBDA r2 :
    IF Len(r2.to_forget) > MAX_REP_DIST
    THEN [r2 EXCEPT !.pos = @ + 1,
                    !.to_forget = SubSeq(@, 1, Len(@) - 1),
                    !.reps[Key(d, r2.to_forget[Len(r2.to_forget)])] = SubSeq(@, 1, Len(@) - 1)]
    ELSE [r2 EXCEPT !.pos = @ + 1]))

\* the two prefix hashes combined without the rotation
hash_recent_substring_unrotated(rt, a, b) ==
    Xor(ReadHash(rt.window_rolling_hash, a % HASH_WINDOW_SIZE),
        ReadHash(rt.window_rolling_hash, b % HASH_WINDOW_SIZE))

hash_recent_substring(rt, a, b) ==
    Xor(rotate_left(ReadHash(rt.window_rolling_hash, a % HASH_WINDOW_SIZE), (b - a) % 32),
        ReadHash(rt.window_rolling_hash, b % HASH_WINDOW_SIZE))

\* data.get_unchecked(i): no bounds check.  The only index read past the end is
\* len itself, and the byte found there is whatever the memory holds: past_end.
get_unchecked(d, i, past_end) == IF i < Len(d) THEN d[i + 1] ELSE past_end

\* The while loop of lines 203-209 leaves res at the first value, counting up from
\* 3, at which its condition fails; the condition fails at MAX_REP_LEN at the latest.
max_len(rt, d, past_end, start, min_len_to_care) ==
    IF get_unchecked(d, start + min_len_to_care - 1, past_end)
           # get_unchecked(d, rt.pos + min_len_to_care - 1, past_end)
    THEN 0
    ELSE IF hash_recent_substring(rt, start, start + min_len_to_care)
                # hash_recent_substring(rt, rt.pos, rt.pos + min_len_to_care)
    THEN 0
    ELSE WhileLoop(LAMBDA res : /\ get_unchecked(d, start + res, past_end)
                                     = get_unchecked(d, rt.pos + res, past_end)
                                /\ res < MAX_REP_LEN
                                /\ rt.pos + res < Len(d),
                   LAMBDA res : res + 1, MAX_REP_LEN, 3)

\* returns the sequence of <<rep dist, length>>
get_reps(rt, d, past_end) ==
    IF rt.pos + 3 > Len(d) THEN <<>>
    ELSE IF Key(d, rt.pos) \notin DOMAIN rt.reps THEN <<>>
    ELSE Bind(rt.reps[Key(d, rt.pos)], LAMBDA reps :
             WhileLoop(LAMBDA s : s.k <= Len(reps) /\ ~s.brk,
                       LAMBDA s :
                           Bind(max_len(rt, d, past_end, reps[s.k], s.longest + 1), LAMBDA l :
                               IF l > s.longest
                               THEN [k |-> s.k + 1,
                                     out |-> Append(s.out, <<rt.pos - reps[s.k], l>>),
                                     longest |-> l, brk |-> (l = MAX_REP_LEN)]
                               ELSE [s EXCEPT !.k = @ + 1,
                                              !.brk = (s.longest = MAX_REP_LEN)]),
                       Len(reps),
                       [k |-> 1, out |-> <<>>, longest |-> 0, brk |-> FALSE]).out)

-----------------------------------------------------------------------------
(* Encoder (lempel_ziv.rs).                                                *)
(*                                                                         *)
(* A slot of possible_encodings is Option<(TokenList, u64)>: some tells    *)
(* whether it is Some, token and prev are the TokenList, size the u64.     *)
(* prev is 0 for None and otherwise the index in rc_nodes of the           *)
(* Rc<TokenList> it refers to.                                             *)

None == [some |-> FALSE, token |-> Literal(0), prev |-> 0, size |-> 0]
Some(token, prev, size) == [some |-> TRUE, token |-> token, prev |-> prev, size |-> size]

size_of_token(token) ==
    IF token.tag = "Literal" THEN [panic |-> FALSE, value |-> 8]
    ELSE Bind(deflate_code_of_len(token.len, overflow_checks), LAMBDA l :
         Bind(deflate_code_of_dist(token.dist, overflow_checks), LAMBDA d :
             [panic |-> l.panic \/ d.panic,
              value |-> (l.extra_bits + 8) + (d.extra_bits + 5)]))

\* insert_next replacing a candidate by one of the same size as well
insert_next_on_ties(st, pos, curr_encoding, curr_size, next_token) ==
    Bind(size_of_token(next_token), LAMBDA extra_size :
    Bind((pos + (IF next_token.tag = "Literal" THEN 1 ELSE next_token.len)) % MAX_REP_LEN,
         LAMBDA i :
        IF st.panic \/ extra_size.panic THEN [st EXCEPT !.panic = TRUE]
        ELSE IF ~st.pe[i].some \/ curr_size + extra_size.value <= st.pe[i].size
        THEN [st EXCEPT !.pe[i] = Some(next_token, curr_encoding, curr_size + extra_size.value)]
        ELSE st))

\* st is [panic, pe]: the ring, and whether an earlier call panicked
insert_next(st, pos, curr_encoding, curr_size, next_token) ==
    Bind(size_of_token(next_token), LAMBDA extra_size :
    Bind((pos + (IF next_token.tag = "Literal" THEN 1 ELSE next_token.len)) % MAX_REP_LEN,
         LAMBDA i :
        IF st.panic \/ extra_size.panic THEN [st EXCEPT !.panic = TRUE]
        ELSE IF ~st.pe[i].some \/ curr_size + extra_size.value < st.pe[i].size
        THEN [st EXCEPT !.pe[i] = Some(next_token, curr_encoding, curr_size + extra_size.value)]
        ELSE st))

Encoder_new(d) ==
    IF RepsTracker_new(d).panic THEN [panic |-> TRUE]
    ELSE [panic |-> FALSE,
          possible_encodings |-> [i \in 0..(MAX_REP_LEN - 1) |-> None],
          reps_tracker |-> RepsTracker_new(d).value]

\* The Rc<TokenList> nodes still alive through the ring: those a list head in the
\* ring refers to, and those such a node refers to.
LiveNodes(pe, nodes) ==
    WhileLoop(LAMBDA S : \E m \in S \ {0} : nodes[m].prev \notin S,
              LAMBDA S : S \cup {nodes[m].prev : m \in S \ {0}},
              Len(nodes) + 1,
              {pe[i].prev : i \in {j \in DOMAIN pe : pe[j].some}}) \ {0}

\* Encoder::run, lines 65-78: take the last list head and unwind it.  Rc::try_unwrap
\* fails, and the run panics, when anything else still holds the node.
Unwind(pe, nodes, pos) ==
    Bind(pe[pos % MAX_REP_LEN], LAMBDA head :
    Bind([pe EXCEPT ![pos % MAX_REP_LEN] = None], LAMBDA rest :
    Bind({rest[i].prev : i \in {j \in DOMAIN rest : rest[j].some}}
             \cup {nodes[m].prev : m \in LiveNodes(rest, nodes)}, LAMBDA held :
    Bind(WhileLoop(LAMBDA s : ~s.done /\ ~s.panic,
                   LAMBDA s :
                       IF s.curr.prev = 0
                       THEN [s EXCEPT !.out = Append(@, s.curr.token), !.done = TRUE]
                       ELSE IF s.curr.prev \in held
                       THEN [s EXCEPT !.out = Append(@, s.curr.token), !.panic = TRUE]
                       ELSE [s EXCEPT !.out = Append(@, s.curr.token),
                                      !.curr = nodes[s.curr.prev]],
                   Len(nodes) + 1,
                   [curr |-> [token |-> head.token, prev |-> head.prev],
                    out |-> <<>>, done |-> FALSE, panic |-> FALSE]), LAMBDA walked :
        IF ~head.some THEN [panic |-> TRUE, out |-> <<>>]
        ELSE [panic |-> walked.panic,
              out |-> [k \in 1..Len(walked.out) |-> walked.out[Len(walked.out) + 1 - k]]]))))

\* Encoder::run, lines 49-62: one iteration of the loop.  The state is the Encoder
\* (reps_tracker, possible_encodings) and the Rc<TokenList> nodes allocated so far.
RunLoopBody(s, d, past_end) ==
    Bind(s.reps_tracker.pos, LAMBDA pos :
    Bind(s.possible_encodings[pos % MAX_REP_LEN], LAMBDA taken :
    Bind(get_reps(s.reps_tracker, d, past_end), LAMBDA reps :
    Bind(For(LAMBDA k, st : insert_next(st, pos, Len(s.rc_nodes) + 1, taken.size,
                                        Repeat(reps[k + 1][2], reps[k + 1][1])),
             0, Len(reps),
             insert_next([panic |-> FALSE,
                          pe |-> [s.possible_encodings EXCEPT ![pos % MAX_REP_LEN] = None]],
                         pos, Len(s.rc_nodes) + 1, taken.size, Literal(d[pos + 1]))),
         LAMBDA st :
        IF ~taken.some \/ st.panic
        THEN [s EXCEPT !.panic = TRUE]
        ELSE [panic |-> FALSE,
              reps_tracker |-> advance(s.reps_tracker, d),
              possible_encodings |-> st.pe,
              rc_nodes |-> Append(s.rc_nodes, [token |-> taken.token, prev |-> taken.prev])]))))

\* Encoder::run.  past_end is what a read one past the end of the input finds.
Encoder_run(rt, pe, d, past_end) ==
    IF Len(d) = 0 THEN [panic |-> FALSE, out |-> <<>>]
    ELSE Bind(WhileLoop(LAMBDA s : ~s.panic /\ s.reps_tracker.pos < Len(d),
                        LAMBDA s : RunLoopBody(s, d, past_end), Len(d),
                        [panic |-> FALSE,
                         reps_tracker |-> advance(rt, d),
                         possible_encodings |-> [pe EXCEPT ![1] = Some(Literal(d[1]), 0, 0)],
                         rc_nodes |-> <<>>]), LAMBDA looped :
             IF looped.panic THEN [panic |-> TRUE, out |-> <<>>]
             ELSE Unwind(looped.possible_encodings, looped.rc_nodes, looped.reps_tracker.pos))

-----------------------------------------------------------------------------
(* huffman.rs.                                                             *)

LITERAL_FIXED_CODES ==
    [i \in 1..288 |-> IF i <= 144 THEN 8 ELSE IF i <= 256 THEN 9 ELSE IF i <= 280 THEN 7 ELSE 8]

DISTANCE_FIXED_CODES == [i \in 1..32 |-> 5]

\* lines 48-56: the low `length` bits of code, in reverse order
ReverseBits(code, length) ==
    For(LAMBDA k, new_code : (new_code * 2) + ((code \div (2 ^ k)) % 2), 0, length, 0)

\* A Tree is a sequence of HuffmanCode, [code, length].  bl_count and next_code hold
\* 16 entries: a length above 15 is an index out of range.
calc_codes(lengths) ==
    IF \E i \in 1..Len(lengths) : lengths[i] > 15
    THEN [panic |-> TRUE, codes |-> <<>>]
    ELSE Bind([bl \in 0..15 |->
                  IF bl = 0 THEN 0
                  ELSE Cardinality({i \in 1..Len(lengths) : lengths[i] = bl})], LAMBDA bl_count :
         Bind(For(LAMBDA bl, s :
                      [code |-> (s.code + bl_count[bl - 1]) * 2,
                       next_code |-> [s.next_code EXCEPT ![bl] = (s.code + bl_count[bl - 1]) * 2]],
                  1, 16, [code |-> 0, next_code |-> [bl \in 0..15 |-> 0]]).next_code,
              LAMBDA start :
         Bind(For(LAMBDA i, s :
                      [codes |-> Append(s.codes, [code |-> s.next_code[lengths[i + 1]],
                                                  length |-> lengths[i + 1]]),
                       next_code |-> [s.next_code EXCEPT ![lengths[i + 1]] = @ + 1]],
                  0, Len(lengths), [codes |-> <<>>, next_code |-> start]).codes,
              LAMBDA assigned :
             [panic |-> FALSE,
              codes |-> [i \in 1..Len(lengths) |->
                            [code |-> ReverseBits(assigned[i].code, assigned[i].length),
                             length |-> assigned[i].length]]])))

\* A Package is [weight, contents]; a VecDeque of them is a sequence, front first.
\* lines 74-83: the live symbols, sorted by decreasing weight; the sort is stable.
SortedLevel(weights) ==
    Bind({i \in 0..(Len(weights) - 1) : weights[i + 1] # 0}, LAMBDA live :
    Bind([i \in live |->
             Cardinality({j \in live : \/ weights[j + 1] > weights[i + 1]
                                       \/ (weights[j + 1] = weights[i + 1] /\ j < i)})],
         LAMBDA rank :
        [k \in 1..Cardinality(live) |->
            [weight |-> weights[(CHOOSE j \in live : rank[j] = k - 1) + 1],
             contents |-> <<CHOOSE j \in live : rank[j] = k - 1>>]]))

merge(a, b) ==
    Bind(WhileLoop(LAMBDA s : Len(s.a) > 0 /\ Len(s.b) > 0,
                   LAMBDA s :
                       IF s.a[Len(s.a)].weight < s.b[Len(s.b)].weight
                       THEN [s EXCEPT !.res = <<s.a[Len(s.a)]>> \o @,
                                      !.a = SubSeq(@, 1, Len(@) - 1)]
                       ELSE [s EXCEPT !.res = <<s.b[Len(s.b)]>> \o @,
                                      !.b = SubSeq(@, 1, Len(@) - 1)],
                   Len(a) + Len(b), [a |-> a, b |-> b, res |-> <<>>]), LAMBDA s1 :
        s1.b \o s1.a \o s1.res)

\* package, but each union keeps only the contents of its first package
package_first_only(v) ==
    [k \in 1..(Len(v) \div 2) |->
        Bind(v[Len(v) - (2 * ((Len(v) \div 2) - k))], LAMBDA p0 :
        Bind(v[Len(v) - (2 * ((Len(v) \div 2) - k)) - 1], LAMBDA p1 :
            [weight |-> p0.weight + p1.weight, contents |-> p0.contents]))]

\* iteration j pops p0 = v[len - 2j] and p1 = v[len - 2j - 1] and pushes their
\* union to the front
package(v) ==
    [k \in 1..(Len(v) \div 2) |->
        Bind(v[Len(v) - (2 * ((Len(v) \div 2) - k))], LAMBDA p0 :
        Bind(v[Len(v) - (2 * ((Len(v) \div 2) - k)) - 1], LAMBDA p1 :
            [weight |-> p0.weight + p1.weight, contents |-> p0.contents \o p1.contents]))]

\* x is a usize, kept as the sequence of its 64 bits, lowest first
UsizeBits(n) == [k \in 1..64 |-> IF k <= 31 THEN (n \div (2 ^ (k - 1))) % 2 ELSE 0]
UsizeMax == [k \in 1..64 |-> 1]
Shl(x, l) == [k \in 1..64 |-> IF k <= l THEN 0 ELSE x[k - l]]
Shr1(x) == [k \in 1..64 |-> IF k = 64 THEN 0 ELSE x[k + 1]]
IsZero(x) == \A k \in 1..64 : x[k] = 0

\* new_level.len() - 1 is a usize subtraction: with no live symbol it panics under
\* overflow checks and wraps to the largest usize otherwise
gen_lengths(weights, l, oc) ==
    Bind(SortedLevel(weights), LAMBDA new_level :
        IF Len(new_level) = 0 /\ oc
        THEN [panic |-> TRUE, out |-> [i \in 1..Len(weights) |-> 0]]
        ELSE Bind(WhileLoop(
                      LAMBDA s : ~IsZero(s.x) /\ ~s.panic,
                      LAMBDA s :
                          Bind(IF s.levels_left > 0 THEN merge(s.curr_packages, new_level)
                               ELSE s.curr_packages, LAMBDA merged :
                              IF s.x[1] = 0
                              THEN [x |-> Shr1(s.x),
                                    levels_left |-> IF s.levels_left > 0 THEN s.levels_left - 1
                                                    ELSE 0,
                                    curr_packages |-> package(merged),
                                    out |-> s.out, panic |-> FALSE]
                              ELSE IF Len(merged) = 0
                              THEN [s EXCEPT !.panic = TRUE]
                              ELSE [x |-> Shr1(s.x),
                                    levels_left |-> IF s.levels_left > 0 THEN s.levels_left - 1
                                                    ELSE 0,
                                    curr_packages |->
                                        package(SubSeq(merged, 1, Len(merged) - 1)),
                                    out |-> For(LAMBDA k, o :
                                                    [o EXCEPT ![merged[Len(merged)].contents[k + 1] + 1]
                                                                  = @ + 1],
                                                0, Len(merged[Len(merged)].contents), s.out),
                                    panic |-> FALSE]),
                      64,
                      [x |-> IF Len(new_level) = 0 THEN Shl(UsizeMax, l)
                             ELSE Shl(UsizeBits(Len(new_level) - 1), l),
                       levels_left |-> l, curr_packages |-> <<>>,
                       out |-> [i \in 1..Len(weights) |-> 0], panic |-> FALSE]),
                  LAMBDA done : [panic |-> done.panic, out |-> done.out]))

-----------------------------------------------------------------------------
(* deflate.rs, new_dynamic_codes_block lines 111-181: the tree description. *)

CODE_LEN_OF_CODE_ORDER == <<16, 17, 18, 0, 8, 7, 9, 6, 10, 5, 11, 4, 12, 3, 13, 2, 14, 1, 15>>

\* One call write_bits(bits, len), with what it stands for:
\* kind is "bfinal", "btype", "hlit", "hdist", "hclen", "cl_len", "cl_sym",
\* "extra", "lit", "eob", "len" or "dist"; sym is the symbol coded, if any.
WriteOf(kind, sym, bits, len) == [kind |-> kind, sym |-> sym, bits |-> bits, len |-> len]

\* lines 114-126: runs [val, len] of equal code lengths; len is a u8.  last_index is
\* computed before the emptiness test: on the empty vector the usize subtraction
\* panics under overflow checks and wraps otherwise.
RleOfCodeLens(code_lens, oc) ==
    For(LAMBDA k, s :
            IF s.panic THEN s
            ELSE IF Len(s.rle) = 0 /\ oc THEN [s EXCEPT !.panic = TRUE]
            ELSE IF Len(s.rle) > 0 /\ s.rle[Len(s.rle)][1] = code_lens[k + 1]
            THEN IF s.rle[Len(s.rle)][2] = 255
                 THEN IF oc THEN [s EXCEPT !.panic = TRUE]
                      ELSE [s EXCEPT !.rle[Len(s.rle)] = <<code_lens[k + 1], 0>>]
                 ELSE [s EXCEPT !.rle[Len(s.rle)] = <<code_lens[k + 1], @[2] + 1>>]
            ELSE [s EXCEPT !.rle = Append(@, <<code_lens[k + 1], 1>>)],
        0, Len(code_lens), [panic |-> FALSE, rle |-> <<>>])

\* lines 129-161: one run as (code, extra bit count, extra bits value) triples
EncodeRun(val, run_len, oc) ==
    IF val = 0
    THEN WhileLoop(LAMBDA s : s.len > 0,
                   LAMBDA s :
                       IF s.len >= 11
                       THEN [s EXCEPT !.out = Append(@, <<18, 7, (IF s.len <= 138 THEN s.len
                                                                  ELSE 138) - 11>>),
                                      !.len = @ - (IF s.len <= 138 THEN s.len ELSE 138)]
                       ELSE IF s.len >= 3
                       THEN [s EXCEPT !.out = Append(@, <<17, 3, s.len - 3>>), !.len = 0]
                       ELSE [s EXCEPT !.out = Append(@, <<0, 0, 0>>), !.len = @ - 1],
                   256, [panic |-> FALSE, len |-> run_len, out |-> <<>>])
    ELSE IF run_len = 0 /\ oc
    THEN [panic |-> TRUE, len |-> 0, out |-> <<<<val, 0, 0>>>>]
    ELSE WhileLoop(LAMBDA s : s.len > 0,
                   LAMBDA s :
                       IF s.len >= 3
                       THEN [s EXCEPT !.out = Append(@, <<16, 2, (IF s.len <= 6 THEN s.len
                                                                  ELSE 6) - 3>>),
                                      !.len = @ - (IF s.len <= 6 THEN s.len ELSE 6)]
                       ELSE [s EXCEPT !.out = Append(@, <<val, 0, 0>>), !.len = @ - 1],
                   256,
                   [panic |-> FALSE, len |-> IF run_len = 0 THEN 255 ELSE run_len - 1,
                    out |-> <<<<val, 0, 0>>>>])

\* lines 163-181: the code length code, and the write_bits calls of the description
TreeWrites(deflate_encode_of_rle, oc) ==
    Bind(gen_lengths(For(LAMBDA k, c : [c EXCEPT ![deflate_encode_of_rle[k + 1][1] + 1] = @ + 1],
                         0, Len(deflate_encode_of_rle), [i \in 1..19 |-> 0]),
                     7, oc), LAMBDA lens :
    Bind(lens.out, LAMBDA code_len_of_code :
    Bind(calc_codes(code_len_of_code).codes, LAMBDA code_len_tree :
        IF lens.panic THEN [panic |-> TRUE, writes |-> <<>>]
        ELSE [panic |-> FALSE,
              writes |->
                  << WriteOf("hlit", 0, 286 - 257, 5), WriteOf("hdist", 0, 30 - 1, 5),
                     WriteOf("hclen", 0, 19 - 4, 4) >>
                  \o [i \in 1..19 |->
                         WriteOf("cl_len", CODE_LEN_OF_CODE_ORDER[i],
                                 code_len_of_code[CODE_LEN_OF_CODE_ORDER[i] + 1], 3)]
                  \o For(LAMBDA k, w :
                             w \o << WriteOf("cl_sym", deflate_encode_of_rle[k + 1][1],
                                             code_len_tree[deflate_encode_of_rle[k + 1][1] + 1].code,
                                             code_len_tree[deflate_encode_of_rle[k + 1][1] + 1].length),
                                     WriteOf("extra", deflate_encode_of_rle[k + 1][1],
                                             deflate_encode_of_rle[k + 1][3],
                                             deflate_encode_of_rle[k + 1][2]) >>,
                         0, Len(deflate_encode_of_rle), <<>>)])))

\* lines 114-162: the write_bits calls that describe the two trees
TreeDescription(literal_code_lens, distance_code_lens, oc) ==
    Bind(RleOfCodeLens(literal_code_lens \o distance_code_lens, oc), LAMBDA rle :
    Bind(For(LAMBDA k, s :
                 IF s.panic THEN s
                 ELSE Bind(EncodeRun(rle.rle[k + 1][1], rle.rle[k + 1][2], oc), LAMBDA r :
                          [panic |-> r.panic, out |-> s.out \o r.out]),
             0, Len(rle.rle), [panic |-> FALSE, out |-> <<>>]), LAMBDA enc :
        IF rle.panic \/ enc.panic THEN [panic |-> TRUE, writes |-> <<>>]
        ELSE IF \E k \in 1..Len(enc.out) : enc.out[k][1] > 18
        THEN [panic |-> TRUE, writes |-> <<>>]
        ELSE TreeWrites(enc.out, oc)))

\* deflate::create_dynamic_block_header(literal_code_lens, distance_code_lens, sink)
\* is called by the splitter and is not defined in deflate.rs.  It is taken to be the
\* tree emission of the writer with wrapping arithmetic, handing every (bits, len)
\* to the sink.
create_dynamic_block_header(literal_code_lens, distance_code_lens) ==
    TreeDescription(literal_code_lens, distance_code_lens, FALSE).writes

-----------------------------------------------------------------------------
(* deflate/block_splitter.rs.                                               *)

\* FreqCounter::new and count, applied to tokens[start..end]
CountTokens(all_tokens, start, end, oc) ==
    For(LAMBDA k, s :
            IF s.panic THEN s
            ELSE IF all_tokens[k + 1].tag = "Literal"
            THEN [s EXCEPT !.literal_count[all_tokens[k + 1].value + 1] = @ + 1]
            ELSE Bind(deflate_code_of_len(all_tokens[k + 1].len, oc), LAMBDA lc :
                 Bind(deflate_code_of_dist(all_tokens[k + 1].dist, oc), LAMBDA dc :
                     IF lc.panic \/ dc.panic THEN [s EXCEPT !.panic = TRUE]
                     ELSE [s EXCEPT !.literal_count[lc.code + 1] = @ + 1,
                                    !.distance_count[dc.code + 1] = @ + 1])),
        start, end,
        [panic |-> FALSE,
         literal_count |-> [i \in 1..286 |-> IF i = 257 THEN 1 ELSE 0],
         distance_count |-> [i \in 1..30 |-> 0]])

\* zip stops at the shorter of the two: the fixed tables have 288 and 32 entries
block_cost(counter, literal_code_lens, distance_code_lens) ==
    For(LAMBDA i, total : total + (counter.literal_count[i + 1] * literal_code_lens[i + 1]),
        0, 286, 0)
    + For(LAMBDA i, total : total + (counter.distance_count[i + 1] * distance_code_lens[i + 1]),
          0, 30, 0)

dynamic_header_cost(literal_code_lens, distance_code_lens) ==
    Bind(create_dynamic_block_header(literal_code_lens, distance_code_lens), LAMBDA writes :
        For(LAMBDA k, res : res + writes[k + 1].len, 0, Len(writes), 0))

\* BlockInProgress::new lines 58-79 and merge lines 93-116: from the frequencies on
Costed(start, end, freqs, oc) ==
    Bind(gen_lengths(freqs.literal_count, 15, oc), LAMBDA lit :
    Bind(gen_lengths(freqs.distance_count, 15, oc), LAMBDA dist :
        IF lit.panic \/ dist.panic
        THEN [panic |-> TRUE]
        ELSE Bind(block_cost(freqs, lit.out, dist.out)
                      + dynamic_header_cost(lit.out, dist.out), LAMBDA dynamic_cost :
             Bind(3 + block_cost(freqs, LITERAL_FIXED_CODES, DISTANCE_FIXED_CODES),
                  LAMBDA fixed_cost :
                 [panic |-> FALSE, start |-> start, end |-> end,
                  freqs |-> [literal_count |-> freqs.literal_count,
                             distance_count |-> freqs.distance_count],
                  literal_code_lens |-> lit.out, distance_code_lens |-> dist.out,
                  cost |-> IF dynamic_cost < fixed_cost THEN dynamic_cost ELSE fixed_cost,
                  is_dynamic |-> dynamic_cost < fixed_cost]))))

BlockInProgress_new(start, end, all_tokens, oc) ==
    Bind(CountTokens(all_tokens, start, end, oc), LAMBDA counter :
        IF counter.panic THEN [panic |-> TRUE] ELSE Costed(start, end, counter, oc))

\* a merge that keeps the start of the second block
BlockInProgress_merge_from_second(b1, b2, oc) ==
    Costed(b2.start, b2.end,
           [literal_count |-> [i \in 1..286 |->
                                  IF i = 257 THEN 1
                                  ELSE b1.freqs.literal_count[i] + b2.freqs.literal_count[i]],
            distance_count |-> [i \in 1..30 |->
                                   b1.freqs.distance_count[i] + b2.freqs.distance_count[i]]],
           oc)

BlockInProgress_merge(b1, b2, oc) ==
    Costed(b1.start, b2.end,
           [literal_count |-> [i \in 1..286 |->
                                  IF i = 257 THEN 1
                                  ELSE b1.freqs.literal_count[i] + b2.freqs.literal_count[i]],
            distance_count |-> [i \in 1..30 |->
                                   b1.freqs.distance_count[i] + b2.freqs.distance_count[i]]],
           oc)

build_block(block) ==
    IF block.is_dynamic
    THEN [tag |-> "DynamicCodes", start |-> block.start, end |-> block.end,
          literal_code_lens |-> block.literal_code_lens,
          distance_code_lens |-> block.distance_code_lens]
    ELSE [tag |-> "FixedCodes", start |-> block.start, end |-> block.end,
          literal_code_lens |-> <<>>, distance_code_lens |-> <<>>]

-----------------------------------------------------------------------------
(* deflate.rs: DeflateWriter.  curr_bytes is a u32, kept as the set of the  *)
(* positions of its one bits; out is the sink, a sequence of bytes.         *)

\* the bits of a u32; a wrapped value 2^32 - k is written -k
U32Bits(n) == IF n >= 0 THEN BitSet(n) ELSE (0..31) \ BitSet((-n) - 1)

\* (curr_bytes >> 8k) & 0xFF
ByteOf(bits, k) ==
    For(LAMBDA j, b : b + (IF ((8 * k) + j) \in bits THEN 2 ^ j ELSE 0), 0, 8, 0)

DeflateWriter_new ==
    [out |-> <<>>, curr_bytes |-> {}, curr_full_bits |-> 0, literal_tree |-> <<>>,
     distance_tree |-> <<>>, in_block |-> FALSE]

\* the loop of lines 59-63 runs (curr_full_bits + len) / 8 times
write_bits(w, bits, len) ==
    Bind(w.curr_bytes \cup {i \in 0..31 : (i - w.curr_full_bits) \in U32Bits(bits)},
         LAMBDA filled :
        [w EXCEPT !.out = @ \o [k \in 1..((w.curr_full_bits + len) \div 8) |->
                                   ByteOf(filled, k - 1)],
                  !.curr_bytes = {i \in 0..31 :
                                     (i + (8 * ((w.curr_full_bits + len) \div 8))) \in filled},
                  !.curr_full_bits = (w.curr_full_bits + len) % 8])

\* the calls write_bits(bits, len) of writes, in order
WriteAll(w, writes) ==
    For(LAMBDA k, s : write_bits(s, writes[k + 1].bits, writes[k + 1].len), 0, Len(writes), w)

\* lines 66-84: the write_bits calls of write(token), up to a panic if there is one
TokenWrites(w, token, oc) ==
    IF token.tag = "Literal"
    THEN IF token.value >= Len(w.literal_tree)
         THEN [panic |-> TRUE, writes |-> <<>>]
         ELSE [panic |-> FALSE,
               writes |-> <<WriteOf("lit", token.value, w.literal_tree[token.value + 1].code,
                                    w.literal_tree[token.value + 1].length)>>]
    ELSE Bind(deflate_code_of_len(token.len, oc), LAMBDA lc :
         Bind(deflate_code_of_dist(token.dist, oc), LAMBDA dc :
             IF lc.panic \/ lc.code >= Len(w.literal_tree)
             THEN [panic |-> TRUE, writes |-> <<>>]
             ELSE IF dc.panic \/ dc.code >= Len(w.distance_tree)
             THEN [panic |-> TRUE,
                   writes |-> << WriteOf("len", lc.code, w.literal_tree[lc.code + 1].code,
                                         w.literal_tree[lc.code + 1].length),
                                 WriteOf("extra", lc.code, lc.offset, lc.extra_bits) >>]
             ELSE [panic |-> FALSE,
                   writes |-> << WriteOf("len", lc.code, w.literal_tree[lc.code + 1].code,
                                         w.literal_tree[lc.code + 1].length),
                                 WriteOf("extra", lc.code, lc.offset, lc.extra_bits),
                                 WriteOf("dist", dc.code, w.distance_tree[dc.code + 1].code,
                                         w.distance_tree[dc.code + 1].length),
                                 WriteOf("extra", dc.code, dc.offset, dc.extra_bits) >>]))

write(w, token, oc) ==
    Bind(TokenWrites(w, token, oc), LAMBDA t :
        [panic |-> t.panic, w |-> WriteAll(w, t.writes), writes |-> t.writes])

\* deflate, lines 23 and 27: tokens.iter().for_each(|t| writer.write(t)) on
\* tokens[start..end], up to a panic if there is one
write_tokens(w, all_tokens, start, end, oc) ==
    For(LAMBDA k, s : IF s.panic THEN s
                      ELSE Bind(write(s.w, all_tokens[k + 1], oc), LAMBDA r :
                               [panic |-> r.panic, w |-> r.w, writes |-> s.writes \o r.writes]),
        start, end, [panic |-> FALSE, w |-> w, writes |-> <<>>])

\* lines 87-91, 101-105 and 191-192: the end of block symbol, in the tree installed
EndOfBlock(w) ==
    IF Len(w.literal_tree) <= 256
    THEN [panic |-> TRUE, writes |-> <<>>]
    ELSE [panic |-> FALSE,
          writes |-> <<WriteOf("eob", 256, w.literal_tree[257].code,
                               w.literal_tree[257].length)>>]

FIXED_LITERAL_TREE == calc_codes(LITERAL_FIXED_CODES).codes
FIXED_DISTANCE_TREE == calc_codes(DISTANCE_FIXED_CODES).codes

\* new_fixed_codes_block, but the trees are installed before the previous block is
\* closed
new_fixed_codes_block_early_install(w, is_final) ==
    Bind([w EXCEPT !.literal_tree = FIXED_LITERAL_TREE,
                   !.distance_tree = FIXED_DISTANCE_TREE], LAMBDA installed :
    Bind(IF w.in_block THEN EndOfBlock(installed) ELSE [panic |-> FALSE, writes |-> <<>>],
         LAMBDA eob :
    Bind(eob.writes \o << WriteOf("bfinal", 0, IF is_final THEN 1 ELSE 0, 1),
                          WriteOf("btype", 0, 1, 1), WriteOf("btype", 0, 0, 1) >>,
         LAMBDA writes :
        IF eob.panic THEN [panic |-> TRUE, w |-> w, writes |-> <<>>]
        ELSE [panic |-> FALSE,
              w |-> [WriteAll(installed, writes) EXCEPT !.in_block = TRUE],
              writes |-> writes])))

\* new_fixed_codes_block, but BFINAL is written as 0 whatever is_final is
new_fixed_codes_block_never_final(w, is_final) ==
    Bind(IF w.in_block THEN EndOfBlock(w) ELSE [panic |-> FALSE, writes |-> <<>>],
         LAMBDA eob :
    Bind(eob.writes \o << WriteOf("bfinal", 0, 0, 1),
                          WriteOf("btype", 0, 1, 1), WriteOf("btype", 0, 0, 1) >>,
         LAMBDA writes :
        IF eob.panic THEN [panic |-> TRUE, w |-> w, writes |-> <<>>]
        ELSE [panic |-> FALSE,
              w |-> [WriteAll(w, writes) EXCEPT !.in_block = TRUE,
                                                !.literal_tree = FIXED_LITERAL_TREE,
                                                !.distance_tree = FIXED_DISTANCE_TREE],
              writes |-> writes]))

new_fixed_codes_block(w, is_final) ==
    Bind(IF w.in_block THEN EndOfBlock(w) ELSE [panic |-> FALSE, writes |-> <<>>],
         LAMBDA eob :
    Bind(eob.writes \o << WriteOf("bfinal", 0, IF is_final THEN 1 ELSE 0, 1),
                          WriteOf("btype", 0, 1, 1), WriteOf("btype", 0, 0, 1) >>,
         LAMBDA writes :
        IF eob.panic THEN [panic |-> TRUE, w |-> w, writes |-> <<>>]
        ELSE [panic |-> FALSE,
              w |-> [WriteAll(w, writes) EXCEPT !.in_block = TRUE,
                                                !.literal_tree = FIXED_LITERAL_TREE,
                                                !.distance_tree = FIXED_DISTANCE_TREE],
              writes |-> writes]))

new_dynamic_codes_block(w, is_final, literal_code_lens, distance_code_lens, oc) ==
    Bind(IF w.in_block THEN EndOfBlock(w) ELSE [panic |-> FALSE, writes |-> <<>>],
         LAMBDA eob :
    Bind(eob.writes \o << WriteOf("bfinal", 0, IF is_final THEN 1 ELSE 0, 1),
                          WriteOf("btype", 0, 0, 1), WriteOf("btype", 0, 1, 1) >>,
         LAMBDA header :
    Bind(TreeDescription(literal_code_lens, distance_code_lens, oc), LAMBDA tree :
    Bind([WriteAll(w, header \o tree.writes) EXCEPT !.in_block = TRUE], LAMBDA written :
    Bind(calc_codes(literal_code_lens), LAMBDA literal_tree :
    Bind(calc_codes(distance_code_lens), LAMBDA distance_tree :
        IF eob.panic THEN [panic |-> TRUE, w |-> w, writes |-> <<>>]
        ELSE IF tree.panic \/ literal_tree.panic \/ distance_tree.panic
        THEN [panic |-> TRUE, w |-> written, writes |-> header \o tree.writes]
        ELSE [panic |-> FALSE,
              w |-> [written EXCEPT !.literal_tree = literal_tree.codes,
                                    !.distance_tree = distance_tree.codes],
              writes |-> header \o tree.writes]))))))

\* Drop for DeflateWriter
drop(w) ==
    Bind(EndOfBlock(w), LAMBDA eob :
    Bind(WriteAll(w, eob.writes), LAMBDA closed :
        IF eob.panic THEN [panic |-> TRUE, w |-> w, writes |-> <<>>]
        ELSE [panic |-> FALSE,
              w |-> IF closed.curr_full_bits > 0
                    THEN [closed EXCEPT !.out = Append(@, ByteOf(closed.curr_bytes, 0))]
                    ELSE closed,
              writes |-> eob.writes]))

-----------------------------------------------------------------------------
(* The inputs.                                                             *)

Cycle(pat, n) == [i \in 1..n |-> pat[((i - 1) % Len(pat)) + 1]]

\* bytes over 37 values in which no three consecutive bytes occur twice
Distinct(n) == [i \in 1..n |-> 60 + (((((i - 1) \div 37) + 1) * ((i - 1) % 37)) % 37)]

\* two copies of the same bytes: literals, then one long Repeat
TwoCopies(n) == Distinct(n) \o Distinct(n)

\* 37 distinct bytes of 9-bit fixed codes, cycled up to MAX_REP_LEN bytes
NearTie == Cycle([i \in 1..37 |-> 143 + i], MAX_REP_LEN)

\* 1023 bytes, the first three of them again, then three other bytes, twice:
\* more than BLOCK_SIZE tokens, so that block_split sees a second slice
LongInput == Distinct(1023) \o Distinct(3) \o <<0, 1, 2>> \o <<0, 1, 2>>

\* two copies of 130 bytes, then two copies of 20 other bytes: Repeats at two
\* distances
TwoDistances == TwoCopies(130) \o [i \in 1..20 |-> i] \o [i \in 1..20 |-> i]

Inputs ==
    { Cycle(<<97>>, n) : n \in 0..MaxShort }
    \cup { Cycle(<<97>>, 12), Cycle(<<97, 98, 99>>, 12), [i \in 1..256 |-> i - 1] }
    \cup { TwoCopies(130 + k) : k \in 0..MaxPad }
    \cup { NearTie, Cycle(<<97, 98, 99>>, MAX_REP_LEN + 3), TwoDistances, LongInput }

\* what a read one past the end of the input may find
PastEnd == {0, 97}

-----------------------------------------------------------------------------
(* deflate(), step by step.                                                *)

NoTracker == [pos |-> 0, reps |-> <<>>, to_forget |-> <<>>, window_rolling_hash |-> <<>>]
NoGen == [pc |-> "off"]

Init ==
    /\ overflow_checks \in BOOLEAN
    /\ data \in Inputs
    /\ pc = "new"
    /\ reps_tracker = NoTracker
    /\ possible_encodings = <<>>
    /\ tokens = <<>>
    /\ split_i = 0
    /\ curr_block = <<>>
    /\ blocks = <<>>
    /\ writer = DeflateWriter_new
    /\ block_i = 0
    /\ emitted = <<>>
    /\ gen = NoGen

\* lempel_ziv, line 10: Encoder::new(data)
EncoderNew ==
    /\ pc = "new"
    /\ \E e \in {Encoder_new(data)} :
           IF e.panic
           THEN /\ pc' = "panic"
                /\ UNCHANGED <<reps_tracker, possible_encodings>>
           ELSE /\ pc' = "run"
                /\ reps_tracker' = e.reps_tracker
                /\ possible_encodings' = e.possible_encodings
    /\ UNCHANGED <<overflow_checks, data, tokens, split_i, curr_block, blocks,
                   writer, block_i, emitted, gen>>

\* lempel_ziv, line 10: .run(); the Encoder is dropped when lempel_ziv returns
Run ==
    /\ pc = "run"
    /\ \E past_end \in PastEnd :
         \E r \in {Encoder_run(reps_tracker, possible_encodings, data, past_end)} :
             IF r.panic
             THEN pc' = "panic" /\ UNCHANGED tokens
             ELSE pc' = "split" /\ tokens' = r.out
    /\ reps_tracker' = NoTracker
    /\ possible_encodings' = <<>>
    /\ UNCHANGED <<overflow_checks, data, split_i, curr_block, blocks, writer, block_i,
                   emitted, gen>>

\* block_split, lines 26-42: one iteration of the loop over the slices.  curr_block
\* is an Option: <<>> is None and <<b>> is Some(b).
SplitStep ==
    /\ pc = "split"
    /\ split_i < Len(tokens)
    /\ \E next_block \in {BlockInProgress_new(split_i, Min({split_i + BLOCK_SIZE, Len(tokens)}),
                                              tokens, overflow_checks)} :
           IF next_block.panic
           THEN pc' = "panic" /\ UNCHANGED <<curr_block, blocks>>
           ELSE IF curr_block = <<>>
           THEN pc' = "split" /\ curr_block' = <<next_block>> /\ UNCHANGED blocks
           ELSE \E combined_block \in {BlockInProgress_merge(curr_block[1], next_block,
                                                             overflow_checks)} :
                    IF combined_block.panic
                    THEN pc' = "panic" /\ UNCHANGED <<curr_block, blocks>>
                    ELSE IF combined_block.cost < curr_block[1].cost + next_block.cost
                    THEN pc' = "split" /\ curr_block' = <<combined_block>> /\ UNCHANGED blocks
                    ELSE /\ pc' = "split"
                         /\ blocks' = Append(blocks, build_block(curr_block[1]))
                         /\ curr_block' = <<next_block>>
    /\ split_i' = split_i + BLOCK_SIZE
    /\ UNCHANGED <<overflow_checks, data, reps_tracker, possible_encodings,
                   tokens, writer, block_i, emitted, gen>>

\* block_split, lines 44-47, and deflate, line 16: DeflateWriter::new
SplitFinish ==
    /\ pc = "split"
    /\ split_i >= Len(tokens)
    /\ blocks' = IF curr_block = <<>> THEN blocks
                 ELSE Append(blocks, build_block(curr_block[1]))
    /\ curr_block' = <<>>
    /\ writer' = DeflateWriter_new
    /\ block_i' = 0
    /\ pc' = "block"
    /\ UNCHANGED <<overflow_checks, data, reps_tracker, possible_encodings,
                   tokens, split_i, emitted, gen>>

\* deflate, lines 19-26: open block block_i.  emitted[k] is the write_bits calls
\* made while block k was the last one opened.
NewBlock ==
    /\ pc = "block"
    /\ block_i < Len(blocks)
    /\ \E block \in {blocks[block_i + 1]} :
       \E r \in {IF block.tag = "FixedCodes"
                 THEN new_fixed_codes_block(writer, block_i = Len(blocks) - 1)
                 ELSE new_dynamic_codes_block(writer, block_i = Len(blocks) - 1,
                                              block.literal_code_lens,
                                              block.distance_code_lens, overflow_checks)} :
       \E opened \in {Min({k \in 1..(Len(r.writes) + 1) :
                               k <= Len(r.writes) => r.writes[k].kind = "bfinal"})} :
           /\ writer' = r.w
           /\ emitted' = (IF emitted = <<>> THEN emitted
                          ELSE [emitted EXCEPT ![Len(emitted)] =
                                                   @ \o SubSeq(r.writes, 1, opened - 1)])
                         \o (IF opened > Len(r.writes) THEN <<>>
                             ELSE <<SubSeq(r.writes, opened, Len(r.writes))>>)
           /\ pc' = IF r.panic THEN "unwind"
                    ELSE IF block.end > block.start THEN "tokens" ELSE "block"
           /\ block_i' = IF r.panic \/ block.end > block.start THEN block_i ELSE block_i + 1
    /\ UNCHANGED <<overflow_checks, data, reps_tracker, possible_encodings,
                   tokens, split_i, curr_block, blocks, gen>>

\* deflate, lines 23 and 27: write the tokens of block block_i
WriteTokens ==
    /\ pc = "tokens"
    /\ \E block \in {blocks[block_i + 1]} :
       \E r \in {write_tokens(writer, tokens, block.start, block.end, overflow_checks)} :
           /\ writer' = r.w
           /\ emitted' = [emitted EXCEPT ![Len(emitted)] = @ \o r.writes]
           /\ pc' = IF r.panic THEN "unwind" ELSE "block"
           /\ block_i' = IF r.panic THEN block_i ELSE block_i + 1
    /\ UNCHANGED <<overflow_checks, data, reps_tracker, possible_encodings,
                   tokens, split_i, curr_block, blocks, gen>>

\* deflate, line 31: the writer goes out of scope
Drop ==
    /\ pc = "block"
    /\ block_i >= Len(blocks)
    /\ \E r \in {drop(writer)} :
           /\ writer' = r.w
           /\ emitted' = IF emitted = <<>> THEN emitted
                         ELSE [emitted EXCEPT ![Len(emitted)] = @ \o r.writes]
           /\ pc' = IF r.panic THEN "panic" ELSE "done"
    /\ UNCHANGED <<overflow_checks, data, reps_tracker, possible_encodings,
                   tokens, split_i, curr_block, blocks, block_i, gen>>

\* a panic inside the loop of deflate unwinds through the writer, whose drop runs
\* (a second panic there aborts the process)
DropUnwinding ==
    /\ pc = "unwind"
    /\ \E r \in {drop(writer)} :
           /\ writer' = r.w
           /\ emitted' = IF emitted = <<>> THEN emitted
                         ELSE [emitted EXCEPT ![Len(emitted)] = @ \o r.writes]
    /\ pc' = "panic"
    /\ UNCHANGED <<overflow_checks, data, reps_tracker, possible_encodings,
                   tokens, split_i, curr_block, blocks, block_i, gen>>

Next ==
    \/ EncoderNew
    \/ Run
    \/ SplitStep
    \/ SplitFinish
    \/ NewBlock
    \/ WriteTokens
    \/ Drop
    \/ DropUnwinding

Spec == Init /\ [][Next]_vars

-----------------------------------------------------------------------------
(* A decoder of RFC 1951, against which the round trip is stated.  It reads *)
(* the bytes given to the sink and nothing else.                            *)

\* bit n of the stream: each byte is filled from its least significant bit
StreamBit(bytes, n) ==
    IF n < 8 * Len(bytes) THEN (bytes[(n \div 8) + 1] \div (2 ^ (n % 8))) % 2 ELSE 0

\* the integer held by the n bits from position pos, least significant first
StreamBits(bytes, pos, n) ==
    For(LAMBDA i, v : v + (StreamBit(bytes, pos + i) * (2 ^ i)), 0, n, 0)

\* RFC 1951 3.2.2.  count[b] is the number of codes of b bits, first[b] the least
\* of them, and order the symbols by code length and then by value; base[b] is
\* the number of symbols of fewer than b bits.
DecodeTable(lengths) ==
    Bind([b \in 1..15 |-> Cardinality({s \in 1..Len(lengths) : lengths[s] = b})],
         LAMBDA count :
        [count |-> count,
         first |-> For(LAMBDA b, f : Append(f, IF b = 1 THEN 0
                                               ELSE (f[b - 1] + count[b - 1]) * 2),
                       1, 16, <<>>),
         base |-> For(LAMBDA b, f : Append(f, IF b = 1 THEN 0 ELSE f[b - 1] + count[b - 1]),
                      1, 16, <<>>),
         order |-> For(LAMBDA b, o :
                           For(LAMBDA s, o2 : IF lengths[s + 1] = b THEN Append(o2, s) ELSE o2,
                               0, Len(lengths), o),
                       1, 16, <<>>)])

\* one symbol: bits are taken one at a time, the first is the most significant of
\* the code
DecodeSym(t, bytes, pos) ==
    Bind(WhileLoop(LAMBDA s : ~s.found /\ s.len < 15,
                   LAMBDA s :
                       Bind((s.code * 2) + StreamBit(bytes, pos + s.len), LAMBDA code :
                           [len |-> s.len + 1, code |-> code,
                            found |-> /\ code >= t.first[s.len + 1]
                                      /\ code - t.first[s.len + 1] < t.count[s.len + 1]]),
                   15, [len |-> 0, code |-> 0, found |-> FALSE]), LAMBDA s :
        IF s.found /\ pos + s.len <= 8 * Len(bytes)
        THEN [ok |-> TRUE, pos |-> pos + s.len,
              sym |-> t.order[t.base[s.len] + (s.code - t.first[s.len]) + 1]]
        ELSE [ok |-> FALSE, pos |-> pos, sym |-> 0])

\* RFC 1951 3.2.5: a length symbol, its extra bits, a distance symbol, its extra
\* bits; the copy may overlap the bytes it produces
InflateCopy(bytes, dist, s, pos, sym) ==
    Bind(LEN_TO_CODE[sym - 256], LAMBDA le :
    Bind(DecodeSym(dist, bytes, pos + le[3]), LAMBDA r :
        IF ~r.ok \/ r.sym > 29 THEN [s EXCEPT !.fail = TRUE]
        ELSE Bind(DIST_TO_CODE[r.sym + 1], LAMBDA de :
             Bind(de[1] + StreamBits(bytes, r.pos, de[3]), LAMBDA d :
                 IF d > Len(s.out) \/ r.pos + de[3] > 8 * Len(bytes)
                 THEN [s EXCEPT !.fail = TRUE]
                 ELSE [s EXCEPT !.pos = r.pos + de[3],
                                !.out = @ \o [i \in 1..(le[1] + StreamBits(bytes, pos, le[3])) |->
                                                 s.out[Len(s.out) - d + ((i - 1) % d) + 1]]]))))

\* the symbols of one block, up to its end of block symbol
InflateSymbols(bytes, lit, dist, s0) ==
    WhileLoop(LAMBDA s : ~s.eob /\ ~s.fail,
              LAMBDA s :
                  Bind(DecodeSym(lit, bytes, s.pos), LAMBDA r :
                      IF ~r.ok \/ r.sym > 285 THEN [s EXCEPT !.fail = TRUE]
                      ELSE IF r.sym < 256
                      THEN [s EXCEPT !.pos = r.pos, !.out = Append(@, r.sym)]
                      ELSE IF r.sym = 256 THEN [s EXCEPT !.pos = r.pos, !.eob = TRUE]
                      ELSE InflateCopy(bytes, dist, s, r.pos, r.sym)),
              8 * Len(bytes), s0)

\* RFC 1951 3.2.7: HLIT, HDIST, HCLEN, the code lengths of the code length
\* alphabet, then the code lengths of the two alphabets
InflateLengths(bytes, pos) ==
    Bind(StreamBits(bytes, pos, 5) + 257, LAMBDA hlit :
    Bind(StreamBits(bytes, pos + 5, 5) + 1, LAMBDA hdist :
    Bind(StreamBits(bytes, pos + 10, 4) + 4, LAMBDA hclen :
    Bind(DecodeTable(For(LAMBDA i, l : [l EXCEPT ![CODE_LEN_OF_CODE_ORDER[i + 1] + 1] =
                                                     StreamBits(bytes, pos + 14 + (3 * i), 3)],
                         0, hclen, [i \in 1..19 |-> 0])), LAMBDA cl :
    Bind(WhileLoop(
             LAMBDA s : ~s.fail /\ Len(s.lens) < hlit + hdist,
             LAMBDA s :
                 Bind(DecodeSym(cl, bytes, s.pos), LAMBDA r :
                     IF ~r.ok THEN [s EXCEPT !.fail = TRUE]
                     ELSE IF r.sym < 16
                     THEN [s EXCEPT !.pos = r.pos, !.lens = Append(@, r.sym)]
                     ELSE IF r.sym = 16
                     THEN IF Len(s.lens) = 0 THEN [s EXCEPT !.fail = TRUE]
                          ELSE [s EXCEPT !.pos = r.pos + 2,
                                         !.lens = @ \o [i \in 1..(3 + StreamBits(bytes, r.pos, 2))
                                                           |-> s.lens[Len(s.lens)]]]
                     ELSE IF r.sym = 17
                     THEN [s EXCEPT !.pos = r.pos + 3,
                                    !.lens = @ \o [i \in 1..(3 + StreamBits(bytes, r.pos, 3)) |-> 0]]
                     ELSE [s EXCEPT !.pos = r.pos + 7,
                                    !.lens = @ \o [i \in 1..(11 + StreamBits(bytes, r.pos, 7)) |-> 0]]),
             320, [pos |-> pos + 14 + (3 * hclen), lens |-> <<>>, fail |-> FALSE]), LAMBDA s :
        [fail |-> s.fail \/ Len(s.lens) # hlit + hdist \/ s.pos > 8 * Len(bytes),
         pos |-> s.pos,
         lit |-> SubSeq(s.lens, 1, hlit),
         dist |-> SubSeq(s.lens, hlit + 1, hlit + hdist)])))))

\* RFC 1951 3.2.4: a stored block starts at the next byte boundary with LEN and
\* its complement
InflateStored(bytes, s) ==
    Bind((s.pos + 3 + 7) \div 8, LAMBDA at :
    Bind(StreamBits(bytes, 8 * at, 16), LAMBDA len :
        IF at + 4 + len > Len(bytes) \/ len + StreamBits(bytes, (8 * at) + 16, 16) # 65535
        THEN [s EXCEPT !.fail = TRUE]
        ELSE [s EXCEPT !.pos = 8 * (at + 4 + len),
                       !.out = @ \o SubSeq(bytes, at + 5, at + 4 + len),
                       !.final = (StreamBit(bytes, s.pos) = 1)]))

\* one block: BFINAL, BTYPE, and the block of that type
InflateBlock(bytes, s) ==
    Bind(StreamBits(bytes, s.pos + 1, 2), LAMBDA btype :
        IF s.pos + 3 > 8 * Len(bytes) \/ btype = 3 THEN [s EXCEPT !.fail = TRUE]
        ELSE IF btype = 0 THEN InflateStored(bytes, s)
        ELSE IF btype = 1
        THEN [InflateSymbols(bytes, DecodeTable(LITERAL_FIXED_CODES),
                             DecodeTable(DISTANCE_FIXED_CODES),
                             [s EXCEPT !.pos = @ + 3, !.eob = FALSE])
                  EXCEPT !.final = (StreamBit(bytes, s.pos) = 1)]
        ELSE Bind(InflateLengths(bytes, s.pos + 3), LAMBDA h :
                 IF h.fail THEN [s EXCEPT !.fail = TRUE]
                 ELSE [InflateSymbols(bytes, DecodeTable(h.lit), DecodeTable(h.dist),
                                      [s EXCEPT !.pos = h.pos, !.eob = FALSE])
                           EXCEPT !.final = (StreamBit(bytes, s.pos) = 1)]))

\* blocks are decoded up to the one with BFINAL = 1
Inflate(bytes) ==
    Bind(WhileLoop(LAMBDA s : ~s.final /\ ~s.fail,
                   LAMBDA s : InflateBlock(bytes, s),
                   Len(bytes) + 1,
                   [pos |-> 0, out |-> <<>>, eob |-> FALSE, final |-> FALSE, fail |-> FALSE]),
         LAMBDA s : [ok |-> s.final /\ ~s.fail, out |-> IF s.fail THEN <<>> ELSE s.out])

-----------------------------------------------------------------------------
(* Properties of deflate().                                                 *)

\* the number of bits a sequence of write_bits calls writes
BitsOf(writes) == For(LAMBDA k, n : n + writes[k + 1].len, 0, Len(writes), 0)

\* the position in the bit stream at which block k starts
BlockOffset(k) == For(LAMBDA j, n : n + BitsOf(emitted[j + 1]), 0, k - 1, 0)

\* deflate has returned or is still running; it has not panicked
Running == pc \notin {"panic", "unwind"}

\* C1: the bytes deflate gives to the sink decode, with an RFC 1951 decoder, to the
\* input; and deflate does give them, for every input
C1_RoundTrip ==
    /\ Running
    /\ pc = "done" => Inflate(writer.out) = [ok |-> TRUE, out |-> data]

\* C2: deflate never ends in a panic, whatever the length of the input
C2_Infallible == pc # "panic" /\ pc # "unwind"

\* C3: on the empty input deflate returns, having written one block with BFINAL = 1
\* that holds the end of block symbol only, and the flush of the partial byte
C3_EmptyInput ==
    data = <<>> =>
        /\ pc # "panic"
        /\ pc = "done" =>
               /\ Len(emitted) = 1
               /\ [i \in 1..Len(emitted[1]) |-> emitted[1][i].kind]
                      = <<"bfinal", "btype", "btype", "eob">>
               /\ emitted[1][1].bits = 1
               /\ Len(writer.out) = (BitsOf(emitted[1]) + 7) \div 8
               /\ Inflate(writer.out) = [ok |-> TRUE, out |-> <<>>]

\* lempel_ziv has returned its token list
Tokenized == pc \in {"split", "block", "tokens", "done"}

\* the tokens before token k + 1 cover p bytes; ok tells whether every Repeat among
\* them copies, from a distance within those bytes, bytes equal to the ones it
\* stands for
MatchWalk ==
    For(LAMBDA k, s :
            IF tokens[k + 1].tag = "Literal"
            THEN [p |-> s.p + 1, ok |-> s.ok /\ s.p < Len(data)]
            ELSE [p |-> s.p + tokens[k + 1].len,
                  ok |-> /\ s.ok
                         /\ 1 <= tokens[k + 1].dist
                         /\ tokens[k + 1].dist <= s.p
                         /\ 3 <= tokens[k + 1].len
                         /\ tokens[k + 1].len <= 258
                         /\ s.p + tokens[k + 1].len <= Len(data)
                         /\ \A i \in 0..(tokens[k + 1].len - 1) :
                                data[s.p + i + 1] = data[s.p - tokens[k + 1].dist + i + 1]],
        0, Len(tokens), [p |-> 0, ok |-> TRUE])

\* C4: every Repeat(l, d) of the token list, at position p, has 1 <= d <= p,
\* 3 <= l <= 258, p + l <= len(input) and copies bytes equal to those at p; and
\* the tokens cover the input exactly
C4_MatchCorrect == Tokenized => (MatchWalk.ok /\ MatchWalk.p = Len(data))

\* a token list with a Repeat that overlaps the bytes it produces
C4_Witness ==
    /\ Tokenized
    /\ \E k \in 1..Len(tokens) :
           tokens[k].tag = "Repeat" /\ tokens[k].len > tokens[k].dist

\* the literal/length tree of block k
TreeOfBlock(k) ==
    IF blocks[k].tag = "FixedCodes" THEN FIXED_LITERAL_TREE
    ELSE calc_codes(blocks[k].literal_code_lens).codes

\* block k has been closed: a later block was opened, or the writer was dropped
Closed(k) == k < Len(emitted) \/ pc = "done"

\* C8: a closed block holds exactly one end of block code, after its last token,
\* and that code is the code of symbol 256 in the block's own tree; a block still
\* open holds none
C8_EndOfBlock ==
    pc \in {"block", "tokens", "done"} =>
        \A k \in 1..Len(emitted) :
            IF Closed(k)
            THEN /\ {i \in 1..Len(emitted[k]) : emitted[k][i].kind = "eob"}
                        = {Len(emitted[k])}
                 /\ Cardinality({i \in 1..Len(emitted[k]) :
                                     emitted[k][i].kind \in {"lit", "len"}})
                        = blocks[k].end - blocks[k].start
                 /\ emitted[k][Len(emitted[k])].bits = TreeOfBlock(k)[257].code
                 /\ emitted[k][Len(emitted[k])].len = TreeOfBlock(k)[257].length
            ELSE \A i \in 1..Len(emitted[k]) : emitted[k][i].kind # "eob"

\* a dynamic block closed when a fixed block is opened
C8_Witness ==
    /\ pc = "done"
    /\ \E k \in 1..(Len(blocks) - 1) :
           blocks[k].tag = "DynamicCodes" /\ blocks[k + 1].tag = "FixedCodes"

\* C9: every block starts with BFINAL, 1 on the last block only, and the two
\* BTYPE bits of the variant the splitter chose, 1 then 0 for fixed and 0 then 1
\* for dynamic; once deflate has returned these are the bits of the stream at the
\* place where the block starts
C9_BlockHeaders ==
    /\ Len(emitted) <= Len(blocks)
    /\ \A k \in 1..Len(emitted) :
           /\ Len(emitted[k]) >= 3
           /\ <<emitted[k][1].kind, emitted[k][2].kind, emitted[k][3].kind>>
                  = <<"bfinal", "btype", "btype">>
           /\ <<emitted[k][1].len, emitted[k][2].len, emitted[k][3].len>> = <<1, 1, 1>>
           /\ emitted[k][1].bits = (IF k = Len(blocks) THEN 1 ELSE 0)
           /\ <<emitted[k][2].bits, emitted[k][3].bits>>
                  = (IF blocks[k].tag = "FixedCodes" THEN <<1, 0>> ELSE <<0, 1>>)
           /\ pc = "done" =>
                  /\ Len(emitted) = Len(blocks)
                  /\ StreamBit(writer.out, BlockOffset(k)) = emitted[k][1].bits
                  /\ StreamBit(writer.out, BlockOffset(k) + 1) = emitted[k][2].bits
                  /\ StreamBit(writer.out, BlockOffset(k) + 2) = emitted[k][3].bits

\* two blocks written, the first not final
C9_Witness ==
    /\ pc = "done"
    /\ Len(emitted) >= 2
    /\ emitted[1][1].bits = 0
    /\ emitted[Len(emitted)][1].bits = 1

\* the write_bits calls of the fixed encoding of the tokens of block k
FixedEncoding(k) ==
    Bind(new_fixed_codes_block(DeflateWriter_new, k = Len(blocks)), LAMBDA opened :
    Bind(write_tokens(opened.w, tokens, blocks[k].start, blocks[k].end, FALSE), LAMBDA body :
        opened.writes \o body.writes \o EndOfBlock(body.w).writes))

\* C10: no block is written as DynamicCodes in more bits than the fixed encoding
\* of the same tokens takes
C10_ExactCost ==
    pc = "done" =>
        \A k \in 1..Len(blocks) :
            blocks[k].tag = "DynamicCodes"
                => BitsOf(emitted[k]) <= BitsOf(FixedEncoding(k))

-----------------------------------------------------------------------------
(* gen_lengths on its own: every small weight vector and bound.            *)

GenWeights == {0, 1, 2, 5}

InitGen ==
    /\ overflow_checks \in BOOLEAN
    /\ gen \in {[pc |-> "call", weights |-> w, l |-> l, out |-> <<>>] :
                    w \in [1..GenN -> GenWeights], l \in 0..GenMaxL}
    /\ data = <<>>
    /\ pc = "off"
    /\ reps_tracker = NoTracker
    /\ possible_encodings = <<>>
    /\ tokens = <<>>
    /\ split_i = 0
    /\ curr_block = <<>>
    /\ blocks = <<>>
    /\ writer = DeflateWriter_new
    /\ block_i = 0
    /\ emitted = <<>>

\* one call gen_lengths(&weights, l, &mut out)
GenLengths ==
    /\ gen.pc = "call"
    /\ LET r == gen_lengths(gen.weights, gen.l, overflow_checks)
       IN  gen' = [gen EXCEPT !.pc = IF r.panic THEN "panic" ELSE "done", !.out = r.out]
    /\ UNCHANGED <<overflow_checks, data, pc, reps_tracker, possible_encodings,
                   tokens, split_i, curr_block, blocks, writer, block_i,
                   emitted>>

NextGen == GenLengths

SpecGen == InitGen /\ [][NextGen]_vars

GenLive == {i \in 1..Len(gen.weights) : gen.weights[i] # 0}

\* C5: with every weight 0, gen_lengths returns normally and every length is 0
C5_ZeroLive ==
    (gen.pc # "call" /\ GenLive = {})
        => (gen.pc = "done" /\ \A i \in 1..Len(gen.out) : gen.out[i] = 0)

\* C6: with exactly one non-zero weight and a bound l >= 1, that symbol gets
\* length 1 and every other symbol length 0
C6_OneLive ==
    (gen.pc # "call" /\ Cardinality(GenLive) = 1 /\ gen.l >= 1)
        => (gen.pc = "done"
            /\ \A i \in 1..Len(gen.out) : gen.out[i] = (IF i \in GenLive THEN 1 ELSE 0))

\* the sum of 2^(l - len[i]) over the live symbols i
KraftScaled ==
    For(LAMBDA i, acc : acc + (IF gen.weights[i + 1] # 0 THEN 2 ^ (gen.l - gen.out[i + 1]) ELSE 0),
        0, Len(gen.out), 0)

\* C7: with at least two live symbols and 2^l >= n_live, a length is 0 exactly for
\* a zero weight, no length exceeds l, and the Kraft sum over the live symbols is
\* exactly 1 (scaled by 2^l: the sum of 2^(l - len[i]) is 2^l)
C7_Complete ==
    (gen.pc # "call" /\ Cardinality(GenLive) >= 2 /\ 2 ^ gen.l >= Cardinality(GenLive))
        => /\ gen.pc = "done"
           /\ \A i \in 1..Len(gen.out) : (gen.out[i] = 0) <=> (gen.weights[i] = 0)
           /\ \A i \in 1..Len(gen.out) : gen.out[i] <= gen.l
           /\ KraftScaled = 2 ^ gen.l

\* a code whose lengths differ, and one squeezed by the bound
C7_Witness ==
    /\ gen.pc = "done"
    /\ Cardinality(GenLive) >= 3
    /\ 2 ^ gen.l >= Cardinality(GenLive)
    /\ \E i, j \in GenLive : gen.out[i] < gen.out[j] /\ gen.out[j] = gen.l

-----------------------------------------------------------------------------
(* block_split on its own: token lists of one to MaxSlices + 1 slices.     *)

SplitPatterns ==
    { <<Literal(97), Repeat(3, 1)>>,
      <<Literal(0), Literal(200), Repeat(10, 2)>>,
      <<Literal(97)>> }

SplitLens == {1, 2} \cup { (BLOCK_SIZE * s) + d : s \in 1..MaxSlices, d \in {-1, 0, 1} }

\* n tokens: the first slice cycles pattern p, the later ones pattern q
SplitTokens(p, q, n) ==
    [i \in 1..n |-> IF i <= BLOCK_SIZE THEN p[((i - 1) % Len(p)) + 1]
                                       ELSE q[((i - 1) % Len(q)) + 1]]

InitSplit ==
    /\ overflow_checks \in BOOLEAN
    /\ tokens \in { SplitTokens(p, q, n) : p \in SplitPatterns, q \in SplitPatterns,
                                           n \in SplitLens }
    /\ pc = "split"
    /\ data = <<>>
    /\ reps_tracker = NoTracker
    /\ possible_encodings = <<>>
    /\ split_i = 0
    /\ curr_block = <<>>
    /\ blocks = <<>>
    /\ writer = DeflateWriter_new
    /\ block_i = 0
    /\ emitted = <<>>
    /\ gen = NoGen

NextSplit ==
    \/ SplitStep
    \/ SplitFinish

SpecSplit == InitSplit /\ [][NextSplit]_vars

\* the blocks built so far, then the block in progress
Ranges == blocks \o curr_block

\* C11: the blocks block_split returns have non-empty token ranges that start at 0,
\* follow one another without a gap or an overlap, and end at the number of tokens;
\* while it runs, the blocks built and the block in progress cover the slices seen
C11_BlockCoverage ==
    /\ \A k \in 1..Len(Ranges) :
           /\ Ranges[k].start < Ranges[k].end
           /\ Ranges[k].start = IF k = 1 THEN 0 ELSE Ranges[k - 1].end
    /\ pc = "split" /\ Ranges # <<>> =>
           Ranges[Len(Ranges)].end = Min({split_i, Len(tokens)})
    /\ pc = "block" /\ Len(tokens) >= 1 =>
           /\ curr_block = <<>>
           /\ blocks # <<>>
           /\ blocks[Len(blocks)].end = Len(tokens)

\* block_split returned after a flush and a merge
C11_Witness ==
    /\ pc = "block"
    /\ Len(blocks) >= 2
    /\ \E k \in 1..Len(blocks) : blocks[k].end - blocks[k].start > BLOCK_SIZE

-----------------------------------------------------------------------------
(* deflate_code_of_len and deflate_code_of_dist on their own.              *)

InitCode ==
    /\ overflow_checks \in BOOLEAN
    /\ gen \in {[pc |-> "call", fn |-> "len", arg |-> v, res |-> <<>>] :
                    v \in 0..(MAX_REP_LEN + MaxOver)}
               \cup {[pc |-> "call", fn |-> "dist", arg |-> v, res |-> <<>>] :
                    v \in 0..(MAX_REP_DIST + MaxOver)}
    /\ data = <<>>
    /\ pc = "off"
    /\ reps_tracker = NoTracker
    /\ possible_encodings = <<>>
    /\ tokens = <<>>
    /\ split_i = 0
    /\ curr_block = <<>>
    /\ blocks = <<>>
    /\ writer = DeflateWriter_new
    /\ block_i = 0
    /\ emitted = <<>>

\* one call deflate_code_of_len(arg) or deflate_code_of_dist(arg)
CodeOfToken ==
    /\ gen.pc = "call"
    /\ \E r \in {IF gen.fn = "len" THEN deflate_code_of_len(gen.arg, overflow_checks)
                                    ELSE deflate_code_of_dist(gen.arg, overflow_checks)} :
           gen' = [gen EXCEPT !.pc = IF r.panic THEN "panic" ELSE "done",
                              !.res = IF r.panic THEN <<>>
                                      ELSE <<r.offset, r.extra_bits, r.code>>]
    /\ UNCHANGED <<overflow_checks, data, pc, reps_tracker, possible_encodings,
                   tokens, split_i, curr_block, blocks, writer, block_i,
                   emitted>>

NextCode == CodeOfToken

SpecCode == InitCode /\ [][NextCode]_vars

\* C12: a length outside 3..258 and a distance outside 1..32768 end the call in a
\* panic; inside the range the call returns a symbol of the alphabet (257..285 for
\* lengths, 0..29 for distances) and an offset in 0 .. 2^extra_bits - 1
C12_InvalidFatal ==
    gen.pc \in {"done", "panic"} =>
        IF \/ gen.fn = "len" /\ gen.arg \in 3..MAX_REP_LEN
           \/ gen.fn = "dist" /\ gen.arg \in 1..MAX_REP_DIST
        THEN /\ gen.pc = "done"
             /\ gen.res[3] \in (IF gen.fn = "len" THEN 257..285 ELSE 0..29)
             /\ gen.res[1] >= 0
             /\ gen.res[1] < 2 ^ gen.res[2]
        ELSE gen.pc = "panic"

-----------------------------------------------------------------------------
(* The tree description of new_dynamic_codes_block on its own.             *)

\* lengths of the runs explored: around every threshold of the run encoding
RunLens == {n \in {1, 2, 3, 4, 6, 7, 8, 10, 11, 12, 138, 139, 149} : n <= MaxLongRun}
           \cup 254..MaxLongRun

\* 316 code lengths: n of a, then m of b, then 7s
RunsOf(a, n, b, m) ==
    [i \in 1..(286 + 30) |-> IF i <= n THEN a ELSE IF i <= n + m THEN b ELSE 7]

InitTree ==
    /\ overflow_checks \in BOOLEAN
    /\ gen \in {[pc |-> "call", code_lens |-> RunsOf(a, n, 5 - a, m), writes |-> <<>>] :
                    a \in {0, 5}, n \in RunLens, m \in {1, 3, 11}}
    /\ data = <<>>
    /\ pc = "off"
    /\ reps_tracker = NoTracker
    /\ possible_encodings = <<>>
    /\ tokens = <<>>
    /\ split_i = 0
    /\ curr_block = <<>>
    /\ blocks = <<>>
    /\ writer = DeflateWriter_new
    /\ block_i = 0
    /\ emitted = <<>>

\* new_dynamic_codes_block, lines 111-181, on the first 286 and the last 30 lengths
EncodeTree ==
    /\ gen.pc = "call"
    /\ \E r \in {TreeDescription(SubSeq(gen.code_lens, 1, 286),
                                  SubSeq(gen.code_lens, 287, 286 + 30), overflow_checks)} :
           gen' = [gen EXCEPT !.pc = IF r.panic THEN "panic" ELSE "done",
                              !.writes = r.writes]
    /\ UNCHANGED <<overflow_checks, data, pc, reps_tracker, possible_encodings,
                   tokens, split_i, curr_block, blocks, writer, block_i,
                   emitted>>

NextTree == EncodeTree

SpecTree == InitTree /\ [][NextTree]_vars

\* the code length symbols written, each with the value of its extra bits
SymbolsWritten ==
    Bind({k \in 1..Len(gen.writes) : gen.writes[k].kind = "cl_sym"}, LAMBDA at :
        [j \in 1..Cardinality(at) |->
            Bind(Min({k \in at : Cardinality({i \in at : i <= k}) = j}), LAMBDA k :
                <<gen.writes[k].sym, gen.writes[k + 1].bits>>)])

\* the code lengths a decoder rebuilds from the symbols, RFC 1951 section 3.2.7
ExpandSymbols(syms) ==
    For(LAMBDA k, s :
            Bind(syms[k + 1][1], LAMBDA sym :
            Bind(syms[k + 1][2], LAMBDA extra :
                IF sym < 16
                THEN [s EXCEPT !.ok = @ /\ extra = 0, !.out = Append(@, sym)]
                ELSE IF sym = 16
                THEN IF s.out = <<>> THEN [s EXCEPT !.ok = FALSE]
                     ELSE [s EXCEPT !.ok = @ /\ extra \in 0..3,
                                    !.out = @ \o [i \in 1..(3 + extra) |-> s.out[Len(s.out)]]]
                ELSE IF sym = 17
                THEN [s EXCEPT !.ok = @ /\ extra \in 0..7,
                               !.out = @ \o [i \in 1..(3 + extra) |-> 0]]
                ELSE [s EXCEPT !.ok = @ /\ sym = 18 /\ extra \in 0..127,
                               !.out = @ \o [i \in 1..(11 + extra) |-> 0]])),
        0, Len(syms), [ok |-> TRUE, out |-> <<>>])

\* C13: the call returns, and the code length symbols it wrote expand to exactly the
\* 316 lengths it was given, every repeat count inside the range of its symbol and
\* no symbol 16 first
C13_TreeRoundTrip ==
    gen.pc # "call" =>
        /\ gen.pc = "done"
        /\ ExpandSymbols(SymbolsWritten) = [ok |-> TRUE, out |-> gen.code_lens]

-----------------------------------------------------------------------------
(* The match finder on its own, one advance() at a time.                   *)

\* earlier copies of 1, 2, 3, ... that agree with the last one on 8, 6, 6, 3 and 4
\* bytes, from the farthest to the closest, after bytes that never repeat
Nested ==
    Distinct(MAX_REP_LEN - 30)
    \o <<1, 2, 3, 4, 5, 6, 7, 8, 50>> \o <<1, 2, 3, 4, 5, 6, 51>> \o <<1, 2, 3, 4, 5, 6, 52>>
    \o <<1, 2, 3, 53>> \o <<1, 2, 3, 4, 54>>

RepsInputs ==
    { Cycle(<<97>>, MAX_REP_LEN + k) : k \in 0..MaxTail }
    \cup { Nested \o SubSeq(<<1, 2, 3, 4, 5, 6, 7, 8, 55, 1, 2, 3>>, 1, 9 + k) : k \in 0..MaxTail }
    \cup { Cycle(<<97, 98, 99>>, MAX_REP_LEN), TwoCopies(130) }

InitReps ==
    /\ overflow_checks \in BOOLEAN
    /\ data \in RepsInputs
    /\ pc = "new"
    /\ reps_tracker = NoTracker
    /\ possible_encodings = <<>>
    /\ tokens = <<>>
    /\ split_i = 0
    /\ curr_block = <<>>
    /\ blocks = <<>>
    /\ writer = DeflateWriter_new
    /\ block_i = 0
    /\ emitted = <<>>
    /\ gen = NoGen

\* one call reps_tracker.advance(), as Encoder::run makes at lines 47 and 62
Advance ==
    /\ pc = "run"
    /\ reps_tracker.pos < Len(data)
    /\ reps_tracker' = advance(reps_tracker, data)
    /\ UNCHANGED <<overflow_checks, data, pc, possible_encodings, tokens, split_i,
                   curr_block, blocks, writer, block_i, emitted, gen>>

NextReps ==
    \/ EncoderNew
    \/ Advance

SpecReps == InitReps /\ [][NextReps]_vars

\* the true match length at p of the copy at q: the number of bytes on which
\* data[q..] and data[p..] agree, at most MAX_REP_LEN and at most up to the end
TrueLen(d, q, p) ==
    Bind(Min({MAX_REP_LEN, Len(d) - p}), LAMBDA cap :
        WhileLoop(LAMBDA k : k < cap /\ d[q + k + 1] = d[p + k + 1],
                  LAMBDA k : k + 1, cap, 0))

\* the earlier occurrences, inside the window, of the three bytes at p
Occurrences(d, p) ==
    {q \in 0..(p - 1) : p - q <= MAX_REP_DIST /\ Key(d, q) = Key(d, p)}

\* the copy at q agrees with the bytes at p on more than l bytes, that is, its
\* true match length is greater than l
Exceeds(d, q, p, l) ==
    /\ l < Min({MAX_REP_LEN, Len(d) - p})
    /\ \A j \in 0..l : d[q + j + 1] = d[p + j + 1]

\* the longest length among the candidates of reps closer than dist, 0 if none
BestCloser(reps, dist) ==
    IF \A k \in 1..Len(reps) : reps[k][1] >= dist THEN 0
    ELSE reps[CHOOSE k \in 1..Len(reps) :
                  /\ reps[k][1] < dist
                  /\ \A j \in 1..Len(reps) : reps[j][1] < dist => reps[j][2] <= reps[k][2]][2]

\* reps, a sequence of <<distance, length>>, is what the contract of get_reps allows
\* at position p
Enumerated(d, p, reps) ==
    /\ \A k \in 1..Len(reps) :
           /\ reps[k][1] \in 1..p
           /\ reps[k][2] >= 3
           /\ reps[k][2] = TrueLen(d, p - reps[k][1], p)
           /\ k > 1 => reps[k][1] > reps[k - 1][1] /\ reps[k][2] > reps[k - 1][2]
    /\ p + 3 <= Len(d) =>
           \A q \in Occurrences(d, p) :
               \/ \E k \in 1..Len(reps) : reps[k][1] = p - q
               \/ ~Exceeds(d, q, p, BestCloser(reps, p - q))

\* C14: at every position, whatever a read past the end finds, get_reps returns
\* strictly increasing distances with strictly increasing lengths, each length the
\* true match length capped at MAX_REP_LEN and at the end of the input, and every
\* earlier occurrence it leaves out matches no longer than a closer one it returns
C14_Enumeration ==
    pc = "run" =>
        \A past_end \in PastEnd :
            Enumerated(data, reps_tracker.pos, get_reps(reps_tracker, data, past_end))

\* get_reps returns three candidates, having left out closer occurrences and
\* farther ones
C14_Witness ==
    /\ pc = "run"
    /\ \E past_end \in PastEnd :
           \E reps \in {get_reps(reps_tracker, data, past_end)} :
               /\ Len(reps) = 3
               /\ Cardinality(Occurrences(data, reps_tracker.pos)) > 3
               /\ \E q \in Occurrences(data, reps_tracker.pos) :
                      reps_tracker.pos - q < reps[3][1]
                      /\ \A k \in 1..3 : reps[k][1] # reps_tracker.pos - q

-----------------------------------------------------------------------------
(* The sliding window of the match finder, on inputs longer than the       *)
(* window.                                                                 *)

\* MAX_REP_DIST + WindowTail bytes: <<1, 2, 3, 4, 5, 6>>, a repeated pattern up to
\* MAX_REP_DIST, then <<1, 2, 3>> again, at the largest distance of a Repeat from
\* the first, a 7, <<4, 5, 6>> again, one byte farther from the first, and 8, 9, ...
Marked(pat) ==
    SubSeq([i \in 1..(MAX_REP_DIST + WindowTail) |->
                IF i <= 6 THEN i
                ELSE IF i <= MAX_REP_DIST THEN pat[((i - 1) % Len(pat)) + 1]
                ELSE IF i - MAX_REP_DIST <= 3 THEN i - MAX_REP_DIST
                ELSE IF i - MAX_REP_DIST = 4 THEN 7
                ELSE IF i - MAX_REP_DIST <= 7 THEN i - (MAX_REP_DIST + 1)
                ELSE i - MAX_REP_DIST],
           1, MAX_REP_DIST + WindowTail)

WindowInputs == { Marked(<<97>>), Marked(<<97, 98, 99>>) }

\* the numbers of advance() calls made in one step: one, during the first
\* ObservedHead calls and from two before the window is full, or, from the start, as
\* many as bring pos to two before the window is full
Strides(pos) ==
    (IF pos < ObservedHead \/ pos >= MAX_REP_DIST - 2 THEN {1} ELSE {})
    \cup (IF pos = 0 THEN {MAX_REP_DIST - 2} ELSE {})

\* advance() and get_reps() have no arithmetic that the build decides
InitWindow ==
    /\ overflow_checks = FALSE
    /\ data \in WindowInputs
    /\ pc = "new"
    /\ reps_tracker = NoTracker
    /\ possible_encodings = <<>>
    /\ tokens = <<>>
    /\ split_i = 0
    /\ curr_block = <<>>
    /\ blocks = <<>>
    /\ writer = DeflateWriter_new
    /\ block_i = 0
    /\ emitted = <<>>
    /\ gen = NoGen

\* n calls reps_tracker.advance(), as Encoder::run makes at lines 47 and 62
AdvanceTo ==
    /\ pc = "run"
    /\ \E n \in Strides(reps_tracker.pos) :
           /\ reps_tracker.pos + n <= Len(data)
           /\ reps_tracker' = For(LAMBDA i, rt : advance(rt, data), 0, n, reps_tracker)
    /\ UNCHANGED <<overflow_checks, data, pc, possible_encodings, tokens, split_i,
                   curr_block, blocks, writer, block_i, emitted, gen>>

NextWindow ==
    \/ EncoderNew
    \/ AdvanceTo

SpecWindow == InitWindow /\ [][NextWindow]_vars

\* the positions the index holds
Indexed == UNION { {reps_tracker.reps[key][i] : i \in 1..Len(reps_tracker.reps[key])} :
                       key \in DOMAIN reps_tracker.reps }

\* s is strictly decreasing: newest first
NewestFirst(s) == \A i \in 2..Len(s) : s[i] < s[i - 1]

\* the index and the FIFO, apart from the age of the entries: every position stored
\* is behind pos and under the key found there, the positions of a key and the FIFO
\* are ordered newest first, and the FIFO and the index hold the same positions
WindowKept(indexed) ==
    /\ \A key \in DOMAIN reps_tracker.reps :
           Bind(reps_tracker.reps[key], LAMBDA at :
               /\ NewestFirst(at)
               /\ \A i \in 1..Len(at) : Key(data, at[i]) = key)
    /\ \A q \in indexed : q < reps_tracker.pos
    /\ Bind(reps_tracker.to_forget, LAMBDA fifo :
            /\ NewestFirst(fifo)
            /\ indexed = {fifo[i] : i \in 1..Len(fifo)})

\* no Repeat of distance 0 or of a distance above MAX_REP_DIST is proposed
InWindow ==
    \A past_end \in PastEnd :
        \E reps \in {get_reps(reps_tracker, data, past_end)} :
            \A k \in 1..Len(reps) : reps[k][1] \in 1..MAX_REP_DIST

-----------------------------------------------------------------------------
(* Encoder::run, one iteration of its loop at a time.  The Rc<TokenList>   *)
(* nodes allocated so far are gen.rc_nodes; gen.overwritten counts the     *)
(* filled slots an iteration has left with another candidate (history).    *)

\* x a a b y z a a a a b w, then the 256 distinct bytes.  The second "a a b" is a
\* Repeat of length 3 and distance 7, proposed one literal after the Repeat of
\* length 3 and distance 1 that ends one byte before it does.
Overtaken ==
    <<120, 97, 97, 98, 121, 122, 97, 97, 97, 97, 98, 119>> \o [i \in 1..256 |-> i - 1]

RingInputs ==
    { Overtaken, NearTie, TwoCopies(130) }
    \cup { Cycle(<<97>>, (2 * MAX_REP_LEN) + k) : k \in 1..MaxWrap }

InitRing ==
    /\ overflow_checks \in BOOLEAN
    /\ data \in RingInputs
    /\ pc = "new"
    /\ reps_tracker = NoTracker
    /\ possible_encodings = <<>>
    /\ tokens = <<>>
    /\ split_i = 0
    /\ curr_block = <<>>
    /\ blocks = <<>>
    /\ writer = DeflateWriter_new
    /\ block_i = 0
    /\ emitted = <<>>
    /\ gen = NoGen

\* Encoder::run, lines 43-47
RunStart ==
    /\ pc = "run"
    /\ IF Len(data) = 0
       THEN /\ pc' = "split"
            /\ tokens' = <<>>
            /\ reps_tracker' = NoTracker
            /\ possible_encodings' = <<>>
            /\ UNCHANGED gen
       ELSE /\ pc' = "loop"
            /\ possible_encodings' =
                   [possible_encodings EXCEPT ![1] = Some(Literal(data[1]), 0, 0)]
            /\ reps_tracker' = advance(reps_tracker, data)
            /\ gen' = [pc |-> "run", rc_nodes |-> <<>>, overwritten |-> 0]
            /\ UNCHANGED tokens
    /\ UNCHANGED <<overflow_checks, data, split_i, curr_block, blocks, writer, block_i,
                   emitted>>

\* the slots, other than the one consumed, that were filled in before and hold
\* another candidate in after
Overwritten(before, after, consumed) ==
    {j \in DOMAIN before : j # consumed /\ before[j].some /\ after[j] # before[j]}

\* Encoder::run, lines 49-62: one iteration of the loop
RunStep ==
    /\ pc = "loop"
    /\ reps_tracker.pos < Len(data)
    /\ \E past_end \in PastEnd :
       \E s \in {RunLoopBody([panic |-> FALSE,
                              reps_tracker |-> reps_tracker,
                              possible_encodings |-> possible_encodings,
                              rc_nodes |-> gen.rc_nodes], data, past_end)} :
           IF s.panic
           THEN pc' = "panic" /\ UNCHANGED <<reps_tracker, possible_encodings, gen>>
           ELSE /\ pc' = "loop"
                /\ reps_tracker' = s.reps_tracker
                /\ possible_encodings' = s.possible_encodings
                /\ gen' = [gen EXCEPT !.rc_nodes = s.rc_nodes,
                                      !.overwritten =
                                          @ + Cardinality(Overwritten(
                                                  possible_encodings, s.possible_encodings,
                                                  reps_tracker.pos % MAX_REP_LEN))]
    /\ UNCHANGED <<overflow_checks, data, tokens, split_i, curr_block, blocks, writer,
                   block_i, emitted>>

\* Encoder::run, lines 65-78; the Encoder is dropped when run returns
RunFinish ==
    /\ pc = "loop"
    /\ reps_tracker.pos >= Len(data)
    /\ \E r \in {Unwind(possible_encodings, gen.rc_nodes, reps_tracker.pos)} :
           IF r.panic
           THEN pc' = "panic" /\ UNCHANGED tokens
           ELSE pc' = "split" /\ tokens' = r.out
    /\ reps_tracker' = NoTracker
    /\ possible_encodings' = <<>>
    /\ UNCHANGED <<overflow_checks, data, split_i, curr_block, blocks, writer, block_i,
                   emitted, gen>>

NextRing ==
    \/ EncoderNew
    \/ RunStart
    \/ RunStep
    \/ RunFinish

SpecRing == InitRing /\ [][NextRing]_vars

\* the number of bytes a token covers
ExtraLength(token) == IF token.tag = "Literal" THEN 1 ELSE token.len

\* for every node, the number of bytes the list ending in it covers
NodeCovered(nodes) ==
    For(LAMBDA k, cov : Append(cov, ExtraLength(nodes[k + 1].token)
                                        + (IF nodes[k + 1].prev = 0 THEN 0
                                           ELSE cov[nodes[k + 1].prev])),
        0, Len(nodes), <<>>)

\* the number of bytes the list of a filled slot covers
Covered(slot, cov) ==
    ExtraLength(slot.token) + (IF slot.prev = 0 THEN 0 ELSE cov[slot.prev])

\* the nodes of the list of a slot
Chain(slot, nodes) ==
    WhileLoop(LAMBDA S : \E m \in S \ {0} : nodes[m].prev \notin S,
              LAMBDA S : S \cup {nodes[m].prev : m \in S \ {0}},
              Len(nodes) + 1,
              {slot.prev}) \ {0}

\* between two iterations, at position pos: the slot about to be consumed (or to be
\* unwound, at the end) is filled, and every filled slot j holds a list covering a
\* position q of pos .. pos + MAX_REP_LEN with q mod MAX_REP_LEN = j.  Position
\* pos + MAX_REP_LEN is written into slot pos mod MAX_REP_LEN after that slot is
\* consumed, and pos has moved on by the end of the iteration: q is below
\* pos + MAX_REP_LEN here, which makes it the only such position
RingKept ==
    pc = "loop" =>
        Bind(NodeCovered(gen.rc_nodes), LAMBDA cov :
            /\ possible_encodings[reps_tracker.pos % MAX_REP_LEN].some
            /\ \A j \in DOMAIN possible_encodings :
                   possible_encodings[j].some =>
                       Bind(Covered(possible_encodings[j], cov), LAMBDA q :
                           /\ q % MAX_REP_LEN = j
                           /\ q >= reps_tracker.pos
                           /\ q < reps_tracker.pos + MAX_REP_LEN))

\* run does not panic, and at the end no slot but the one to unwind refers, itself
\* or through its list, to a node of the list to unwind
UnwoundAlone ==
    /\ pc # "panic"
    /\ (pc = "loop" /\ reps_tracker.pos >= Len(data)) =>
           Bind(reps_tracker.pos % MAX_REP_LEN, LAMBDA last :
               LiveNodes([possible_encodings EXCEPT ![last] = None], gen.rc_nodes)
                   \cap Chain(possible_encodings[last], gen.rc_nodes) = {})

\* an iteration leaves a filled slot it did not consume with another candidate only
\* if that one covers the same position and is strictly cheaper
CheaperOnly ==
    (pc = "loop" /\ pc' = "loop") =>
        \A j \in Overwritten(possible_encodings, possible_encodings',
                             reps_tracker.pos % MAX_REP_LEN) :
            /\ possible_encodings'[j].some
            /\ possible_encodings'[j].size < possible_encodings[j].size
            /\ Covered(possible_encodings'[j], NodeCovered(gen'.rc_nodes))
                   = Covered(possible_encodings[j], NodeCovered(gen.rc_nodes))

\* C16: in Encoder::run the slot consumed is filled at every step, and so is the slot
\* to unwind after the last; every filled slot j holds a list covering a position q
\* of pos .. pos + MAX_REP_LEN with q mod MAX_REP_LEN = j; a filled slot is
\* overwritten only by a strictly cheaper candidate for the same position; and when
\* the final list is unwound no other slot refers to any of its nodes
C16_RingInvariant == [](RingKept /\ UnwoundAlone) /\ [][CheaperOnly]_vars

\* the ring has gone round, a filled slot has been overwritten, and the list
\* unwound holds the Repeat of length 3 that the overwriting favoured
C16_Witness ==
    /\ pc = "split"
    /\ Len(data) > MAX_REP_LEN
    /\ gen # NoGen
    /\ gen.overwritten > 0
    /\ \E k \in 1..Len(tokens) : tokens[k].tag = "Repeat" /\ tokens[k].len = 3

====
